---- MODULE Spec2Model ----
(***************************************************************************)
(* A state-machine model of the blur-brush image editor (src/src/App.tsx, *)
(* the component that starts at line 543).                                 *)
(*                                                                         *)
(* Units.  Surface coordinates produced by getCanvasPoint are fractional   *)
(* pixels; the model keeps them as integers counted in HALF pixels, so a   *)
(* point <<x2, y2>> is the surface point (x2/2, y2/2) and the brush radius *)
(* brushSize/2 pixels is brushSize half pixels.  Pixel (i, j) is the unit  *)
(* square [i, i+1] x [j, j+1], i.e. [2i, 2i+2] x [2j, 2j+2] half pixels.   *)
(*                                                                         *)
(* Pixels.  A pixel is <<opacity, expression>>.  The expression says how   *)
(* the pixel is computed from the pixels of a decoded image, which are     *)
(* grey values: by the platform's blur, by its resampling filter, under    *)
(* the anti-aliased rim of a clip, or as a blend of one pixel over another. *)
(* The gaussian kernel, the resampling filter, the coverage of a rim pixel *)
(* and the rounding to eight bits belong to the browser and are left       *)
(* uninterpreted: two pixels are equal when they are computed by the same  *)
(* operations in the same order from the same image.  The opacity is what  *)
(* holds of the pixel's alpha on every platform: "clear" (0), "opaque"     *)
(* (255), "partial" (strictly between) or "unknown".                       *)
(*                                                                         *)
(* React.  A state update made by a handler is one step with that handler; *)
(* the commit that mounts the canvas element after imageDetails is set is  *)
(* a step of its own (ReactCommit), and the blurStrength effect runs in    *)
(* the step of the range input's change.  An exception that leaves the     *)
(* effect unmounts the component; one that leaves a frame callback ends    *)
(* that callback only.                                                     *)
(*                                                                         *)
(* pixi.js.  Whether the construction of a pipeline succeeds, and whether  *)
(* destroy(true) returns or throws on an object destroyed before, is the   *)
(* library's choice: every setup draws an outcome from PixiOutcomes.       *)
(***************************************************************************)
EXTENDS Integers, Sequences, FiniteSets, TLC

\* ------------------------------------------------------------------ bounds
MaxLoads == 2
MaxStrokes == 2
\* Explicit clipboard reads, and copies, in one run.
MaxReads == 1
MaxCopies == 2

\* ------------------------------------------------------- program constants
DEFAULT_BRUSH_SIZE == 52
DEFAULT_BLUR_STRENGTH == 6
MIN_BRUSH_SIZE == 18
MAX_BRUSH_SIZE == 140
MIN_BLUR_STRENGTH == 2
MAX_BLUR_STRENGTH == 18
\* An HTML canvas element is 300 x 150 and transparent until it is resized.
DEFAULT_CANVAS_WIDTH == 300
DEFAULT_CANVAS_HEIGHT == 150

\* The values of the two range inputs the model lets the user pick.
BrushSizes == {MIN_BRUSH_SIZE, DEFAULT_BRUSH_SIZE, MAX_BRUSH_SIZE}
BlurStrengths == {MIN_BLUR_STRENGTH, DEFAULT_BLUR_STRENGTH, MAX_BLUR_STRENGTH}

\* ------------------------------------------------------------ arithmetic
Max(a, b) == IF a >= b THEN a ELSE b
Min(a, b) == IF a <= b THEN a ELSE b
Abs(a) == IF a >= 0 THEN a ELSE -a
\* Math.round of the non-negative rational n/d: floor(n/d + 1/2).
RoundDiv(n, d) == (2 * n + d) \div (2 * d)

\* ---------------------------------------------------------------- pixels
Transparent == <<"clear", <<"none">>>>
Opaque(v) == <<"opaque", <<"grey", v>>>>
Opacity(p) == p[1]

\* CanvasRenderingContext2D.drawImage under the default composite
\* operation source-over: src drawn over dst.  An opaque source replaces the
\* pixel, a transparent one leaves it, and any source is stored as it is on a
\* transparent pixel.  In every other case the result is the blend of src
\* over dst that the platform's 8-bit arithmetic gives: successive blends are
\* kept in the order in which they were drawn.
SourceOver(src, dst) ==
    IF Opacity(src) = "clear" THEN dst
    ELSE IF Opacity(src) = "opaque" \/ Opacity(dst) = "clear" THEN src
    ELSE << IF Opacity(dst) = "opaque" THEN "opaque" ELSE "unknown",
            <<"over", src, dst>> >>

\* A source pixel seen through the clip of the brush application brush =
\* <<x, y, size>>, which covers all of the destination pixel (num = 2) or a
\* part of it that the anti-aliasing of the platform decides (num = 1).
Covered(src, num, brush) ==
    IF num = 2 THEN src
    ELSE IF Opacity(src) = "clear" THEN Transparent
    ELSE <<"unknown", <<"covered", brush, src>>>>

\* ------------------------------------------------------------ surfaces
\* A canvas (or a decoded image) is [w, h, px] with px a function on Cells.
Cells(w, h) == (0 .. w - 1) \X (0 .. h - 1)
Null == [null |-> TRUE]
NewCanvas(w, h) == [w |-> w, h |-> h, px |-> [c \in Cells(w, h) |-> Transparent]]
\* The element React mounts: its 300 x 150 transparent bitmap is never drawn
\* on before setupCanvases resizes it, so its pixels are not enumerated.
MountedCanvas ==
    [w |-> DEFAULT_CANVAS_WIDTH, h |-> DEFAULT_CANVAS_HEIGHT, px |-> <<>>]
\* The pixel of a surface at (i, j); outside the bitmap nothing is drawn.
PixelAt(s, i, j) ==
    IF i >= 0 /\ i < s.w /\ j >= 0 /\ j < s.h THEN s.px[<<i, j>>] ELSE Transparent
\* The same surface with its pixels tabulated (f @@ <<>> = f): every pixel is
\* then computed once, however often it is read afterwards.
Bitmap(s) == [w |-> s.w, h |-> s.h, px |-> s.px @@ <<>>]

\* ------------------------------------------------------- blobs and images
\* The binary inputs a load can be given.  "empty" has zero bytes, "corrupt"
\* does not decode, "zerodim" decodes to an image without pixels; "imgS" is an
\* opaque 3 x 2 raster, "imgT" a 2 x 3 raster with a transparent pixel and
\* "imgW" an opaque 12 x 5 raster, wider than the smallest brush's radius.
Blobs == {"empty", "corrupt", "zerodim", "imgS", "imgT", "imgW"}
BlobSize(b) == IF b = "empty" THEN 0 ELSE 64
FileName(b) == b \o ".png"
Decodes(b) == b \in {"zerodim", "imgS", "imgT", "imgW"}
\* The decoded HTMLImageElements: naturalWidth, naturalHeight and the raster.
ImageS ==
    [w |-> 3, h |-> 2,
     px |-> [c \in Cells(3, 2) |-> Opaque(40 + c[1] * 60 + c[2] * 30)]]
ImageT ==
    [w |-> 2, h |-> 3,
     px |-> [c \in Cells(2, 3) |->
               IF c = <<0, 0>> THEN Transparent
               ELSE Opaque(200 - c[1] * 70 - c[2] * 25)]]
ImageW ==
    [w |-> 12, h |-> 5,
     px |-> [c \in Cells(12, 5) |-> Opaque((c[1] * 19 + c[2] * 40) % 256)]]
ImageZero == [w |-> 6, h |-> 0, px |-> <<>>]
Decode(b) ==
    CASE b = "imgS" -> ImageS
      [] b = "imgT" -> ImageT
      [] b = "imgW" -> ImageW
      [] OTHER -> ImageZero

\* drawImage(image, 0, 0) onto a cleared w x h bitmap.
DrawImage(img, w, h) ==
    [w |-> w, h |-> h, px |-> [c \in Cells(w, h) |-> PixelAt(img, c[1], c[2])]]

\* ------------------------------------------------------------ blur renderer
\* All pixels of the surface are resampled from one source at its own size.
IsResampled(s) ==
    /\ s.w > 0 /\ s.h > 0 /\ <<0, 0>> \in DOMAIN s.px
    /\ s.px[<<0, 0>>][2][1] = "sample"
    /\ \A c \in Cells(s.w, s.h) :
          s.px[c][2] = <<"sample", c, s.w, s.h, s.px[<<0, 0>>][2][5]>>
\* What a pixel computed from a whole surface names that surface by: a
\* decoded image by its blob, a resampled surface by its size and its own
\* source, any other surface by its pixels.
SurfaceKey(s) ==
    IF \E b \in Blobs : Decodes(b) /\ Decode(b) = s
    THEN <<"image", CHOOSE b \in Blobs : Decodes(b) /\ Decode(b) = s>>
    ELSE IF IsResampled(s)
    THEN <<"resampled", s.w, s.h, s.px[<<0, 0>>][2][5]>>
    ELSE <<"raster", s>>

\* The platform's filter blur(s px) is a gaussian of standard deviation s px
\* on premultiplied values, with nothing but transparency around the image.
\* Where an opaque pixel has an edge of the image within 1.5 s px of its
\* centre, part of the kernel's weight lies outside the image and the blurred
\* pixel is partly transparent; elsewhere its alpha is the platform's.
FadesAt(img, s, c) ==
    /\ c[1] >= 0 /\ c[1] < img.w /\ c[2] >= 0 /\ c[2] < img.h
    /\ Opacity(img.px[c]) = "opaque"
    /\ Min(Min(2 * c[1] + 1, 2 * (img.w - c[1]) - 1),
           Min(2 * c[2] + 1, 2 * (img.h - c[2]) - 1)) <= 3 * s
\* The blurred pixel at c: a function of the image, the strength and c.  The
\* image is named by its key, computed once for all pixels of a surface.
BlurPixel(img, key, s, c) ==
    << IF FadesAt(img, s, c) THEN "partial" ELSE "unknown", <<"blur", c, s, key>> >>
\* context.filter = blur(s px) and drawImage(image, 0, 0) on a cleared w x h
\* bitmap.
FilterBlur(img, s, w, h) ==
    LET key == CHOOSE k \in {SurfaceKey(img)} : TRUE
    IN  [w |-> w, h |-> h, px |-> [c \in Cells(w, h) |-> BlurPixel(img, key, s, c)]]
\* The view of the pixi renderer after render(stage): the sprite of the
\* image under a BlurFilter of the given strength, on a transparent
\* background.
PixiBlur(img, s) ==
    LET key == CHOOSE k \in {SurfaceKey(img)} : TRUE
    IN  [w |-> img.w, h |-> img.h,
         px |-> [c \in Cells(img.w, img.h) |-> <<"unknown", <<"pixi", c, s, key>>>>]]

\* drawImage(src, 0, 0, w, h) onto a cleared w x h bitmap with smoothing of
\* high quality.  At its own size the source is copied pixel for pixel.
\* Stretched, every destination pixel is a sample of the source that the
\* platform's filter computes; the filter takes the nearest edge pixel for
\* what lies outside the source, so that an opaque source stays opaque.
Resample(src, w, h) ==
    IF src.w = w /\ src.h = h THEN DrawImage(src, w, h)
    ELSE LET key == CHOOSE k \in {SurfaceKey(src)} : TRUE
             opacity == CHOOSE o \in {IF \A c \in Cells(src.w, src.h) :
                                          Opacity(src.px[c]) = "opaque"
                                    THEN "opaque" ELSE "unknown"} : TRUE
         IN  [w |-> w, h |-> h,
              px |-> [c \in Cells(w, h) |-> <<opacity, <<"sample", c, w, h, key>>>>]]

\* The scale without its lower limit (C16's mutant).
Scale100Unclamped(strength) == 100 - 5 * strength
\* scale = Math.max(0.12, 1 - strength / 20), in hundredths.
Scale100(strength) == Max(12, 100 - 5 * strength)
\* The number of binary digits of the natural number n, and 2^k.
RECURSIVE BitLength(_)
BitLength(n) == IF n = 0 THEN 0 ELSE 1 + BitLength(n \div 2)
RECURSIVE Pow2(_)
Pow2(k) == IF k = 0 THEN 1 ELSE 2 * Pow2(k - 1)
\* scale is an IEEE-754 double: 1 - strength / 20 evaluates to M / 2^E with a
\* 53-bit M, which differs from (20 - strength) / 20 unless the latter is a
\* binary fraction.  ScaleExponent is E, and ScaleError[strength] is the t
\* with 5 * M = (20 - strength) * 2^(E - 2) - t, for the strengths whose scale
\* lies above the limit 0.12 (the double of 0.12 is never multiplied to a half).
ScaleExponent(strength) ==
    IF strength <= 10 THEN 53 ELSE IF strength <= 15 THEN 54 ELSE 55
ScaleError == <<2, -1, 1, -2, 0, 2, -1, 1, -2, 0, 4, -2, 2, -4, 0, 8, -4>>
\* n * scale is a double as well.  Where the exact product n * (20 - strength)
\* / 20 is k + 1/2, the double product is the nearest double of k + 1/2 -
\* n * t / (5 * 2^E); it lies below k + 1/2, so that Math.round gives k and not
\* k + 1, when n * t / 5 exceeds half a unit in the last place of k + 1/2.
\* Anywhere else the product is too far from a half for the error to matter.
HalfLost(n, strength) ==
    /\ strength \in DOMAIN ScaleError
    /\ (n * (20 - strength)) % 20 = 10
    /\ LET h == (n * (20 - strength)) \div 10
           b == BitLength(h) + ScaleExponent(strength) - 54
       IN  2 * n * ScaleError[strength] > 5 * Pow2(b)
\* Math.max(1, Math.round(n * scale)), in the doubles the code computes with.
ScaledSize(n, strength) ==
    Max(1, RoundDiv(n * Scale100(strength), 100)
             - IF HalfLost(n, strength) THEN 1 ELSE 0)
\* passes = Math.max(1, Math.round(strength / 6))
Passes(strength) == Max(1, RoundDiv(strength, 6))

\* The downscale/upscale loop: each pass draws the current source into the
\* scratch canvas and the scratch canvas back onto the blurred canvas.
RECURSIVE DownscalePasses(_, _, _, _, _, _)
DownscalePasses(source, w, h, sw, sh, passes) ==
    IF passes = 0 THEN source
    ELSE LET scratch == Bitmap(Resample(source, sw, sh))
         IN  DownscalePasses(Bitmap(Resample(scratch, w, h)), w, h, sw, sh, passes - 1)
DownscaleBlur(img, strength, w, h) ==
    DownscalePasses(img, w, h, ScaledSize(w, strength), ScaledSize(h, strength),
                    Passes(strength))

\* ------------------------------------------------------------------ state
VARIABLES
    loads,              \* the Image objects created by loadImageFromBlob, by id
    frames,             \* pending requestAnimationFrame callbacks (image ids), FIFO
    imageRef,           \* imageRef.current: an image id, 0 for null
    imageDetails,       \* React state as last set: Null or [name, width, height];
                        \* Unmounted once React has removed the component
    statusMessage,      \* React state as last set
    brushSize,          \* React state
    blurStrength,       \* React state
    blurStrengthRef,    \* blurStrengthRef.current
    canvas,             \* the display canvas, Null until ReactCommit: what
                        \* canvasRef.current holds while the component is mounted
    sourceCanvas,       \* sourceCanvasRef.current (original)
    blurredCanvas,      \* blurredCanvasRef.current
    blurSourceRef,      \* what blurSourceRef.current designates
    blurScratch,        \* blurScratchRef.current: Null or the scratch canvas' size
    pixi,               \* the six pixi*Ref.current and the renderer's view
    isDrawingRef,       \* isDrawingRef.current
    activeInputRef,     \* activeInputRef.current: "pointer", "touch" or "none"
    canUseCanvasFilter, \* the platform's capability, fixed for a run
    clipboardApi,       \* which of navigator.clipboard.read / write + ClipboardItem exist
    copies,             \* the runs of handleCopyToClipboard, by order of their click
    reads,              \* the runs of handlePasteFromClipboard that reached clipboard.read()
    strokes,            \* history: brush applications made so far
    lastBrush,          \* history: the last brush application's point and size
    lastEvent           \* history: the handler that ran last, and whether its guards passed

refs == <<canvas, sourceCanvas, blurredCanvas, blurSourceRef, blurScratch, pixi>>
surfaces == <<canvas, sourceCanvas, blurredCanvas, blurSourceRef, pixi>>
session == <<isDrawingRef, activeInputRef>>
react == <<imageDetails, brushSize, blurStrength, blurStrengthRef>>
history == <<strokes, lastBrush>>
clipboard == <<clipboardApi, copies, reads>>
vars == <<loads, frames, imageRef, statusMessage, react, refs, session,
          canUseCanvasFilter, clipboard, history, lastEvent>>

\* The decoded image behind an image id.
Image(id) == Decode(loads[id].blob)

\* The pixi refs, all null.  A ref is TRUE when it holds an object; image is
\* the image the pipeline was built for; view is the renderer's canvas.
\* rendererDead and textureDead say that destroy(true) has already been
\* called on the object the renderer ref, and the texture ref, holds.
\* rendererDestroys and textureDestroys record how often the last
\* setupPixiPipeline call called destroy(true) on the renderer, and on the
\* texture, it found in the refs.
NoPixi == [renderer |-> FALSE, stage |-> FALSE, sprite |-> FALSE,
           blurFilter |-> FALSE, texture |-> FALSE, image |-> 0, view |-> Null,
           rendererDead |-> FALSE, textureDead |-> FALSE,
           rendererDestroys |-> 0, textureDestroys |-> 0]

\* The refs the Surface Manager and the Blur Renderer read and write.  threw
\* becomes TRUE when an exception leaves the function that is working on them.
Refs == [canvas |-> canvas, sourceCanvas |-> sourceCanvas,
         blurredCanvas |-> blurredCanvas, blurSourceRef |-> blurSourceRef,
         blurScratch |-> blurScratch, pixi |-> pixi, threw |-> FALSE]

\* setupCanvases that keeps a blurred canvas it finds (C5's mutant).
setupCanvasesReuseBlurred(r, img) ==
    IF r.canvas = Null THEN r
    ELSE [r EXCEPT !.canvas = DrawImage(img, img.w, img.h),
                   !.sourceCanvas = DrawImage(img, img.w, img.h),
                   !.blurredCanvas = IF r.blurredCanvas = Null
                                     THEN NewCanvas(img.w, img.h)
                                     ELSE r.blurredCanvas,
                   !.blurSourceRef = "blurredCanvas"]

\* --------------------------------------------------------- surface manager
\* setupCanvases(image): the display canvas is resized and redrawn, the
\* original and the blurred canvas are created anew.
setupCanvases(r, img) ==
    IF r.canvas = Null THEN r
    ELSE [r EXCEPT !.canvas = DrawImage(img, img.w, img.h),
                   !.sourceCanvas = DrawImage(img, img.w, img.h),
                   !.blurredCanvas = NewCanvas(img.w, img.h),
                   !.blurSourceRef = "blurredCanvas"]

\* What pixi.js, which is not part of the repository, can do in one
\* setupPixiPipeline call: the construction of the new pipeline succeeds or
\* throws (built), and destroy(true) called on a renderer, or on a texture,
\* that has been destroyed before returns or throws.
PixiOutcomes == [built : BOOLEAN, rendererThrows : BOOLEAN, textureThrows : BOOLEAN]

\* setupPixiPipeline.  The try block destroys the renderer and the texture
\* the refs hold and builds a new pipeline for the image; the refs are
\* assigned only at its end.  When anything in it throws, the catch block
\* calls destroy(true) on what the renderer ref holds, clears the renderer,
\* stage, sprite and filter refs, calls destroy(true) on what the texture ref
\* holds, and clears the texture and image refs.  The objects the catch
\* block finds are the old ones, destroyed already: when their destroy
\* throws, the exception leaves setupPixiPipeline with the refs not yet
\* cleared as they are.
setupPixiPipeline(r, id, img, outcome) ==
    LET old == r.pixi
        tryRendererThrew == old.renderer /\ old.rendererDead /\ outcome.rendererThrows
        tryTextureThrew == /\ ~tryRendererThrew
                           /\ old.texture /\ old.textureDead /\ outcome.textureThrows
        built == ~tryRendererThrew /\ ~tryTextureThrew /\ outcome.built
        tryRenderer == IF old.renderer THEN 1 ELSE 0
        tryTexture == IF old.texture /\ ~tryRendererThrew THEN 1 ELSE 0
        catchRendererThrew == old.renderer /\ outcome.rendererThrows
        catchTextureThrew == ~catchRendererThrew /\ old.texture /\ outcome.textureThrows
    IN  IF built
        THEN [r EXCEPT !.pixi = [renderer |-> TRUE, stage |-> TRUE, sprite |-> TRUE,
                                 blurFilter |-> TRUE, texture |-> TRUE, image |-> id,
                                 view |-> NewCanvas(img.w, img.h),
                                 rendererDead |-> FALSE, textureDead |-> FALSE,
                                 rendererDestroys |-> tryRenderer,
                                 textureDestroys |-> tryTexture],
                       !.blurSourceRef = "pixiView"]
        ELSE IF catchRendererThrew
        THEN [r EXCEPT !.pixi.rendererDead = TRUE,
                       !.pixi.textureDead = @ \/ tryTexture = 1,
                       !.pixi.rendererDestroys = tryRenderer + 1,
                       !.pixi.textureDestroys = tryTexture,
                       !.threw = TRUE]
        ELSE IF catchTextureThrew
        THEN [r EXCEPT !.pixi.renderer = FALSE, !.pixi.stage = FALSE,
                       !.pixi.sprite = FALSE, !.pixi.blurFilter = FALSE,
                       !.pixi.rendererDead = FALSE,
                       !.pixi.textureDead = TRUE,
                       !.pixi.rendererDestroys = 2 * tryRenderer,
                       !.pixi.textureDestroys = tryTexture + 1,
                       !.threw = TRUE]
        ELSE [r EXCEPT !.pixi = [NoPixi EXCEPT
                                   !.rendererDestroys = 2 * tryRenderer,
                                   !.textureDestroys = 2 * tryTexture]]

\* updateBlurredCanvas(strength) with imageRef.current = id (0 for null).
\* outcome says what pixi.js does in the pipeline setup, if this call makes
\* one.  An exception that leaves the setup leaves this function as well.
updateBlurredCanvas(r, id, strength, filter, outcome) ==
    IF id = 0 \/ r.blurredCanvas = Null THEN r
    ELSE
    LET img == Image(id)
        w == r.blurredCanvas.w
        h == r.blurredCanvas.h
        r1 == IF ~filter /\ (~r.pixi.renderer \/ r.pixi.image # id)
              THEN setupPixiPipeline(r, id, img, outcome) ELSE r
    IN  IF r1.threw THEN r1
        ELSE IF ~filter /\ r1.pixi.renderer /\ r1.pixi.stage /\ r1.pixi.sprite
                        /\ r1.pixi.blurFilter
        THEN [r1 EXCEPT !.pixi.view = PixiBlur(img, strength),
                        !.blurSourceRef = "pixiView"]
        ELSE IF filter
        THEN [r1 EXCEPT !.blurredCanvas = FilterBlur(img, strength, w, h),
                        !.blurSourceRef = "blurredCanvas"]
        ELSE [r1 EXCEPT !.blurScratch = [w |-> ScaledSize(w, strength),
                                         h |-> ScaledSize(h, strength)],
                        !.blurredCanvas = DownscaleBlur(img, strength, w, h),
                        !.blurSourceRef = "blurredCanvas"]

\* renderImageToCanvas(image) with image = the decoded image id.
renderImageToCanvas(r, id, filter, outcome) ==
    IF r.canvas = Null THEN r
    ELSE updateBlurredCanvas(setupCanvases(r, Image(id)), id, blurStrengthRef,
                             filter, outcome)

\* The canvas blurSourceRef.current ?? blurredCanvasRef.current.
BlurSource(r) ==
    CASE r.blurSourceRef = "pixiView" -> r.pixi.view
      [] r.blurSourceRef = "blurredCanvas" -> r.blurredCanvas
      [] OTHER -> r.blurredCanvas

SetRefs(r) ==
    /\ canvas' = r.canvas
    /\ sourceCanvas' = r.sourceCanvas
    /\ blurredCanvas' = r.blurredCanvas
    /\ blurSourceRef' = r.blurSourceRef
    /\ blurScratch' = r.blurScratch
    /\ pixi' = r.pixi

\* -------------------------------------------------------- brush compositor
\* canvas.getBoundingClientRect(): where the layout shows the canvas.  The
\* canvas is shown zoom CSS pixels wide per bitmap pixel.
Zooms == {1, 2}
BoundingClientRect(cv, zoom) ==
    [left |-> 10, top |-> 20, width |-> cv.w * zoom, height |-> cv.h * zoom]

\* getCanvasPoint without the scale factors (C9's mutant).
getCanvasPointUnscaled(cv, rect, clientX, clientY) ==
    << 2 * (clientX - rect.left), 2 * (clientY - rect.top) >>

\* getCanvasPoint: client coordinates to surface coordinates (half pixels).
getCanvasPoint(cv, rect, clientX, clientY) ==
    << (2 * (clientX - rect.left) * cv.w) \div rect.width,
       (2 * (clientY - rect.top) * cv.h) \div rect.height >>

\* The window applyBlurAtPoint computes, in half pixels.
BrushWindow(cv, point, size) ==
    LET radius == size
        startX == Max(0, point[1] - radius)
        startY == Max(0, point[2] - radius)
        endX == Min(2 * cv.w, point[1] + radius)
        endY == Min(2 * cv.h, point[2] + radius)
    IN  [startX |-> startX, startY |-> startY, endX |-> endX, endY |-> endY,
         width |-> endX - startX, height |-> endY - startY]

\* How much of the interval [2k, 2k+2] lies in the interval from..from+len
\* (drawImage accepts a negative length and flips the rectangle): 0, 1 or 2.
SpanCover(from, len, k) ==
    LET lo == Min(from, from + len)
        hi == Max(from, from + len)
    IN  Max(0, Min(2, Min(hi, 2 * k + 2) - Max(lo, 2 * k)))

\* The squared distance from point to the nearest and the farthest point of
\* pixel (i, j).
NearDist2(point, i, j) ==
    LET dx == Max(0, Max(2 * i - point[1], point[1] - (2 * i + 2)))
        dy == Max(0, Max(2 * j - point[2], point[2] - (2 * j + 2)))
    IN  dx * dx + dy * dy
FarDist2(point, i, j) ==
    LET dx == Max(Abs(point[1] - 2 * i), Abs(point[1] - (2 * i + 2)))
        dy == Max(Abs(point[2] - 2 * j), Abs(point[2] - (2 * j + 2)))
    IN  dx * dx + dy * dy

\* How much of pixel (i, j) the clip arc(point, radius) covers: 2 all of it,
\* 0 none of it, 1 a part (the anti-aliased rim).
ClipCover(point, size, i, j) ==
    IF FarDist2(point, i, j) <= size * size THEN 2
    ELSE IF NearDist2(point, i, j) >= size * size THEN 0
    ELSE 1

\* The brush without its circular clip (C4's mutant).
BrushCoverNoClip(win, point, size, i, j) ==
    LET rx == SpanCover(win.startX, win.width, i)
        ry == SpanCover(win.startY, win.height, j)
    IN  IF rx = 0 \/ ry = 0 THEN 0
        ELSE IF rx = 2 /\ ry = 2 THEN 2
        ELSE 1

\* How much of pixel (i, j) one brush application draws on: the clip and the
\* rectangle win that drawImage is given, which is empty when a side is zero.
BrushCover(win, point, size, i, j) ==
    LET rx == SpanCover(win.startX, win.width, i)
        ry == SpanCover(win.startY, win.height, j)
        clip == ClipCover(point, size, i, j)
    IN  IF rx = 0 \/ ry = 0 \/ clip = 0 THEN 0
        ELSE IF rx = 2 /\ ry = 2 /\ clip = 2 THEN 2
        ELSE 1

\* applyBlurAtPoint: the window of the blur source drawn over the display
\* canvas through the circular clip.
applyBlurAtPoint(cv, source, point, size) ==
    IF cv = Null \/ source = Null THEN cv
    ELSE \* the window, tabulated once for all pixels
         LET win == CHOOSE x \in {BrushWindow(cv, point, size)} : TRUE
         IN  [cv EXCEPT !.px =
                [c \in Cells(cv.w, cv.h) |->
                    LET k == BrushCover(win, point, size, c[1], c[2])
                    IN  IF k = 0 THEN cv.px[c]
                        ELSE SourceOver(Covered(PixelAt(source, c[1], c[2]), k,
                                                <<point[1], point[2], size>>),
                                        cv.px[c])]]

\* ----------------------------------------------------------- initial state
\* The clipboard capabilities a browser can have; most have both.
ClipboardApis == [read : BOOLEAN, write : BOOLEAN]
FullClipboardApi == [read |-> TRUE, write |-> TRUE]

\* The state after the first render, on a platform among the given ones.
InitOn(filters, apis) ==
    /\ loads = <<>>
    /\ frames = <<>>
    /\ imageRef = 0
    /\ imageDetails = Null
    /\ statusMessage = ""
    /\ brushSize = DEFAULT_BRUSH_SIZE
    /\ blurStrength = DEFAULT_BLUR_STRENGTH
    /\ blurStrengthRef = DEFAULT_BLUR_STRENGTH
    /\ canvas = Null
    /\ sourceCanvas = Null
    /\ blurredCanvas = Null
    /\ blurSourceRef = "null"
    /\ blurScratch = Null
    /\ pixi = NoPixi
    /\ isDrawingRef = FALSE
    /\ activeInputRef = "none"
    /\ canUseCanvasFilter \in filters
    /\ clipboardApi \in apis
    /\ copies = <<>>
    /\ reads = <<>>
    /\ strokes = 0
    /\ lastBrush = Null
    /\ lastEvent = [handler |-> "mount", accepted |-> TRUE]

Init == InitOn(BOOLEAN, {FullClipboardApi})
\* The same on a browser with a native canvas filter, with or without
\* navigator.clipboard.read, and with or without the means to write an image.
InitPaste == InitOn({TRUE}, {api \in ClipboardApis : api.write})
InitCopy == InitOn({TRUE}, {api \in ClipboardApis : api.read})
\* The same on a browser without a native canvas filter.
InitFallback == InitOn({FALSE}, {FullClipboardApi})

Ran(handler, accepted) == lastEvent' = [handler |-> handler, accepted |-> accepted]

\* The component has no error boundary: when an exception leaves one of its
\* effects React removes the whole tree.  The component's state is gone then
\* (imageDetails = Unmounted) and its state setters do nothing, its elements
\* and listeners are removed and canvasRef.current is set to null; the
\* canvas element and the other refs stay as they are, and callbacks that
\* were scheduled before still run and see them.
Unmounted == [unmounted |-> TRUE]
Mounted == imageDetails # Unmounted
setStatusMessage(message) ==
    statusMessage' = IF Mounted THEN message ELSE statusMessage
setImageDetails(details) ==
    imageDetails' = IF Mounted THEN details ELSE imageDetails
\* The <canvas> element is in the document: it receives events and
\* canvasRef.current holds it.
canvasMounted == Mounted /\ canvas # Null

\* ------------------------------------------------------------ image loader
StatusEmpty == "Image data was empty or blocked by the browser."
StatusLoading == "Loading image..."
StatusZeroSize == "Image decoded with no visible pixels."
StatusReady == "Image ready. Drag to paint subtle blur."
StatusLoadFailed == "Could not load that image."
StatusReset == "Reset to the original image."

\* loadImageFromBlob without the look at blob.size (C11's mutant).
loadImageFromBlobAnySize(blob, name) ==
    /\ Len(loads) < MaxLoads
    /\ setStatusMessage(StatusLoading)
    /\ loads' = Append(loads, [blob |-> blob, name |-> name, state |-> "decoding",
                                 renders |-> 0, revoked |-> 0])

\* loadImageFromBlob up to image.src = objectUrl: an empty blob is refused,
\* any other starts a decode on a new Image object.  A load records, besides
\* the blob, the name and the state of the decode, how often its image was
\* handed to setupCanvases by renderImageToCanvas (renders) and how often
\* URL.revokeObjectURL was called with its object URL (revoked).
loadImageFromBlob(blob, name) ==
    IF BlobSize(blob) = 0
    THEN /\ setStatusMessage(StatusEmpty)
         /\ UNCHANGED loads
    ELSE /\ Len(loads) < MaxLoads
         /\ setStatusMessage(StatusLoading)
         /\ loads' = Append(loads, [blob |-> blob, name |-> name, state |-> "decoding",
                                 renders |-> 0, revoked |-> 0])

\* handleFileChange with the file the user picked.
HandleFileChange(blob) ==
    /\ Mounted
    /\ loadImageFromBlob(blob, FileName(blob))
    /\ Ran("filechange", BlobSize(blob) # 0)
    /\ UNCHANGED <<frames, imageRef, react, refs, session, canUseCanvasFilter, clipboard, history>>

\* hasImage as the last committed render saw it.  The render that first sees
\* imageDetails set mounts the <canvas> and the two range inputs and enables
\* the Copy and Reset buttons.
hasImage == Mounted /\ imageDetails # Null /\ canvas # Null

\* React commits the render that setImageDetails scheduled in image.onload:
\* the <canvas> is mounted and canvasRef.current set.  image.onload only
\* schedules this render, so the frame callback it requested may run before
\* or after the commit.
ReactCommit ==
    /\ Mounted
    /\ imageDetails # Null
    /\ canvas = Null
    /\ canvas' = MountedCanvas
    /\ Ran("commit", TRUE)
    /\ UNCHANGED <<loads, frames, imageRef, statusMessage, react, sourceCanvas,
                   blurredCanvas, blurSourceRef, blurScratch, pixi, session,
                   canUseCanvasFilter, clipboard, history>>

\* image.onload without the zero-size check (C10's mutant).
ImageOnloadNoSizeCheck(id) ==
    /\ loads[id].state = "decoding"
    /\ Decodes(loads[id].blob)
    /\ loads' = [loads EXCEPT ![id].state = "loaded", ![id].revoked = @ + 1]
    /\ imageRef' = id
    /\ setImageDetails([name |-> loads[id].name, width |-> Image(id).w,
                         height |-> Image(id).h])
    /\ setStatusMessage(StatusReady)
    /\ frames' = Append(frames, id)
    /\ UNCHANGED canvas
    /\ Ran("onload", TRUE)
    /\ UNCHANGED <<brushSize, blurStrength, blurStrengthRef, sourceCanvas,
                   blurredCanvas, blurSourceRef, blurScratch, pixi>>
    /\ UNCHANGED <<session, canUseCanvasFilter, clipboard, history>>

\* image.onload of the Image object id.
ImageOnload(id) ==
    /\ loads[id].state = "decoding"
    /\ Decodes(loads[id].blob)
    /\ loads' = [loads EXCEPT ![id].state = "loaded", ![id].revoked = @ + 1]
    /\ LET image == Image(id)
       IN  IF image.w = 0 \/ image.h = 0
           THEN /\ setStatusMessage(StatusZeroSize)
                /\ Ran("onload", FALSE)
                /\ UNCHANGED <<frames, imageRef, react, refs>>
           ELSE /\ imageRef' = id
                /\ setImageDetails([name |-> loads[id].name, width |-> image.w,
                                     height |-> image.h])
                /\ setStatusMessage(StatusReady)
                /\ frames' = Append(frames, id)
                /\ UNCHANGED canvas
                /\ Ran("onload", TRUE)
                /\ UNCHANGED <<brushSize, blurStrength, blurStrengthRef, sourceCanvas,
                               blurredCanvas, blurSourceRef, blurScratch, pixi>>
    /\ UNCHANGED <<session, canUseCanvasFilter, clipboard, history>>

\* image.onerror that leaves the object URL alone (C30's mutant).
ImageOnerrorNoRevoke(id) ==
    /\ loads[id].state = "decoding"
    /\ ~Decodes(loads[id].blob)
    /\ loads' = [loads EXCEPT ![id].state = "failed"]
    /\ setStatusMessage(StatusLoadFailed)
    /\ Ran("onerror", TRUE)
    /\ UNCHANGED <<frames, imageRef, react, refs, session, canUseCanvasFilter, clipboard, history>>

\* image.onerror of the Image object id.
ImageOnerror(id) ==
    /\ loads[id].state = "decoding"
    /\ ~Decodes(loads[id].blob)
    /\ loads' = [loads EXCEPT ![id].state = "failed", ![id].revoked = @ + 1]
    /\ setStatusMessage(StatusLoadFailed)
    /\ Ran("onerror", TRUE)
    /\ UNCHANGED <<frames, imageRef, react, refs, session, canUseCanvasFilter, clipboard, history>>

\* The frame callback image.onload registered: the oldest pending one runs.
\* It hands the image to renderImageToCanvas unless imageRef has moved on;
\* the event counts as accepted, and the image as rendered, when
\* renderImageToCanvas found the canvas and went on to setupCanvases.
AnimationFrame ==
    /\ frames # <<>>
    /\ frames' = Tail(frames)
    /\ LET id == Head(frames)
       IN  IF imageRef # id
           THEN /\ Ran("frame", FALSE)
                /\ UNCHANGED <<loads, refs>>
           ELSE /\ Ran("frame", canvasMounted)
                /\ loads' = [loads EXCEPT ![id].renders =
                                IF canvasMounted THEN @ + 1 ELSE @]
                /\ IF Mounted
                   THEN \E outcome \in PixiOutcomes :
                           \E r \in {renderImageToCanvas(Refs, id, canUseCanvasFilter,
                                                          outcome)} :
                              SetRefs(r)
                   ELSE UNCHANGED refs
    /\ UNCHANGED <<imageRef, statusMessage, react, session,
                   canUseCanvasFilter, clipboard, history>>

\* ------------------------------------------------------------ the controls
\* The blur-strength range input, with the effect its change triggers.  An
\* exception that leaves updateBlurredCanvas leaves the effect: the tree is
\* unmounted.
SetBlurStrength(strength) ==
    /\ hasImage
    /\ strength # blurStrength
    /\ blurStrength' = strength
    /\ blurStrengthRef' = strength
    /\ \E outcome \in PixiOutcomes :
          \E r \in {updateBlurredCanvas(Refs, imageRef, strength, canUseCanvasFilter,
                                       outcome)} :
             IF r.threw
             THEN /\ SetRefs(r)
                  /\ imageDetails' = Unmounted
             ELSE /\ SetRefs(r)
                  /\ UNCHANGED imageDetails
    /\ Ran("strength", TRUE)
    /\ UNCHANGED <<loads, frames, imageRef, statusMessage, brushSize,
                   session, canUseCanvasFilter, clipboard, history>>

\* The brush-size range input redrawing the display from the original
\* (C28's mutant).
SetBrushSizeRedraws(size) ==
    /\ hasImage
    /\ size # brushSize
    /\ brushSize' = size
    /\ canvas' = IF sourceCanvas = Null THEN canvas ELSE sourceCanvas
    /\ Ran("brush", TRUE)
    /\ UNCHANGED <<loads, frames, imageRef, imageDetails, statusMessage, blurStrength,
                   blurStrengthRef, sourceCanvas, blurredCanvas, blurSourceRef,
                   blurScratch, pixi, session, canUseCanvasFilter, clipboard, history>>

\* The brush-size range input.
SetBrushSize(size) ==
    /\ hasImage
    /\ size # brushSize
    /\ brushSize' = size
    /\ Ran("brush", TRUE)
    /\ UNCHANGED <<loads, frames, imageRef, imageDetails, statusMessage, blurStrength,
                   blurStrengthRef, refs, session, canUseCanvasFilter, clipboard, history>>

\* handleReset without clearRect (C3's mutant).
HandleResetNoClear ==
    /\ hasImage
    /\ IF sourceCanvas = Null \/ canvas = Null
       THEN /\ Ran("reset", FALSE)
            /\ UNCHANGED <<canvas, statusMessage>>
       ELSE /\ canvas' = [canvas EXCEPT !.px =
                            [c \in Cells(canvas.w, canvas.h) |->
                                SourceOver(PixelAt(sourceCanvas, c[1], c[2]),
                                           canvas.px[c])]]
            /\ setStatusMessage(StatusReset)
            /\ Ran("reset", TRUE)
    /\ UNCHANGED <<loads, frames, imageRef, react, sourceCanvas, blurredCanvas,
                   blurSourceRef, blurScratch, pixi, session, canUseCanvasFilter, clipboard,
                   history>>

\* handleReset drawing the wrong way, the display onto the original (C21's
\* mutant).
HandleResetIntoOriginal ==
    /\ hasImage
    /\ IF sourceCanvas = Null \/ canvas = Null
       THEN /\ Ran("reset", FALSE)
            /\ UNCHANGED <<sourceCanvas, statusMessage>>
       ELSE /\ sourceCanvas' = DrawImage(canvas, sourceCanvas.w, sourceCanvas.h)
            /\ setStatusMessage(StatusReset)
            /\ Ran("reset", TRUE)
    /\ UNCHANGED <<loads, frames, imageRef, react, canvas, blurredCanvas,
                   blurSourceRef, blurScratch, pixi, session, canUseCanvasFilter, clipboard,
                   history>>

\* handleReset, behind a button that is disabled until a render with
\* hasImage has been committed.
HandleReset ==
    /\ hasImage
    /\ IF sourceCanvas = Null \/ canvas = Null
       THEN /\ Ran("reset", FALSE)
            /\ UNCHANGED <<canvas, statusMessage>>
       ELSE /\ canvas' = DrawImage(sourceCanvas, canvas.w, canvas.h)
            /\ setStatusMessage(StatusReset)
            /\ Ran("reset", TRUE)
    /\ UNCHANGED <<loads, frames, imageRef, react, sourceCanvas, blurredCanvas,
                   blurSourceRef, blurScratch, pixi, session, canUseCanvasFilter, clipboard,
                   history>>

\* ------------------------------------------------------------ the clipboard
StatusClipboardUnavailable == "Clipboard data is not available in this browser."
StatusPasteNoImage == "Clipboard paste did not include an image."
StatusReadUnsupported == "Clipboard read is not supported in this browser."
StatusReading == "Reading clipboard..."
StatusReadNoImage == "Clipboard did not include an image."
StatusReadFailed == "Clipboard read failed. Check permissions."
StatusPreparing == "Preparing blurred image..."
StatusExportFailed == "Could not export the image."
StatusCopyUnsupported == "Clipboard image copy is not supported here."
StatusCopied == "Blurred image copied to clipboard."
StatusCopyFailed == "Clipboard copy failed. Try again."

\* A MIME type "major/minor" is the pair <<major, minor>>, so that
\* type.startsWith('image/') reads its first component.
TextPlain == <<"text", "plain">>
TextHtml == <<"text", "html">>
ImagePng == <<"image", "png">>
ImageJpeg == <<"image", "jpeg">>
IsImageType(type) == type[1] = "image"

\* find that returns the last matching element (C24's mutant).
FindLast(seq, matching) ==
    IF matching = {} THEN Null
    ELSE seq[CHOOSE i \in matching : \A j \in matching : i >= j]

\* Array.prototype.find: the first element of seq among those at the
\* matching indices, Null if none matches.
Find(seq, matching) ==
    IF matching = {} THEN Null
    ELSE seq[CHOOSE i \in matching : \A j \in matching : i <= j]

\* A File of the paste event, and a DataTransferItem with what getAsFile()
\* returns for it.
File(type, name, blob) == [type |-> type, name |-> name, blob |-> blob]
Item(type, file) == [type |-> type, file |-> file]
\* event.clipboardData of the paste events: copied text; a screenshot that
\* is both a file and an item; the same with no bytes; items only, a text
\* before two unnamed images; an image item that yields no file.
PasteText == [files |-> <<>>, items |-> <<Item(TextPlain, Null)>>]
PasteImage(blob) ==
    LET file == File(ImagePng, FileName(blob), blob)
    IN  [files |-> <<file>>, items |-> <<Item(ImagePng, file)>>]
PasteItemsOnly ==
    [files |-> <<>>,
     items |-> <<Item(TextHtml, Null), Item(ImageJpeg, File(ImageJpeg, "", "imgT")),
                 Item(ImagePng, File(ImagePng, "", "imgS"))>>]
PasteTextFile ==
    [files |-> <<File(TextPlain, "notes.txt", "corrupt")>>,
     items |-> <<Item(TextPlain, File(TextPlain, "notes.txt", "corrupt"))>>]
\* Null stands for a paste event without clipboardData.
PasteInputs ==
    {Null, PasteText, PasteTextFile, PasteImage("imgS"), PasteImage("empty"),
     PasteItemsOnly}

\* handlePaste that takes the first file whatever its type (C12's mutant).
handlePasteAnyFile(data) ==
    /\ Mounted
    /\ IF data = Null
       THEN /\ setStatusMessage(StatusClipboardUnavailable)
            /\ Ran("paste", FALSE)
            /\ UNCHANGED loads
       ELSE LET file == Find(data.files, DOMAIN data.files)
            IN  IF file = Null
                THEN /\ setStatusMessage(StatusPasteNoImage)
                     /\ Ran("paste", FALSE)
                     /\ UNCHANGED loads
                ELSE /\ loadImageFromBlob(file.blob, IF file.name # "" THEN file.name
                                                     ELSE "Clipboard image")
                     /\ Ran("paste", BlobSize(file.blob) # 0)
    /\ UNCHANGED <<frames, imageRef, react, refs, session, canUseCanvasFilter,
                   clipboard, history>>

\* handlePaste, the window's paste listener, with event.clipboardData = data.
handlePaste(data) ==
    /\ Mounted
    /\ IF data = Null
       THEN /\ setStatusMessage(StatusClipboardUnavailable)
            /\ Ran("paste", FALSE)
            /\ UNCHANGED loads
       ELSE LET fileFromFiles == Find(data.files, {k \in DOMAIN data.files :
                                                         IsImageType(data.files[k].type)})
                itemFromClipboard == Find(data.items, {k \in DOMAIN data.items :
                                                             IsImageType(data.items[k].type)})
                fileFromItems == IF itemFromClipboard = Null THEN Null
                                 ELSE itemFromClipboard.file
                file == IF fileFromFiles # Null THEN fileFromFiles ELSE fileFromItems
            IN  IF file = Null
                THEN /\ setStatusMessage(StatusPasteNoImage)
                     /\ Ran("paste", FALSE)
                     /\ UNCHANGED loads
                ELSE /\ loadImageFromBlob(file.blob, IF file.name # "" THEN file.name
                                                     ELSE "Clipboard image")
                     /\ Ran("paste", BlobSize(file.blob) # 0)
    /\ UNCHANGED <<frames, imageRef, react, refs, session, canUseCanvasFilter,
                   clipboard, history>>

\* One ClipboardItem of navigator.clipboard.read(): its types, and the blob
\* getType resolves to for its image type ("denied": getType rejects).
ClipboardItem(types, blob) == [types |-> types, blob |-> blob]
\* What navigator.clipboard.read() settles with: a rejection; nothing;
\* text; text and two copied pictures (the first with its markup); a picture
\* with no bytes; a picture whose bytes the browser refuses.
ReadDenied == [ok |-> FALSE, items |-> <<>>]
ReadItems(items) == [ok |-> TRUE, items |-> items]
ReadInputs ==
    {ReadDenied, ReadItems(<<>>), ReadItems(<<ClipboardItem(<<TextPlain>>, "denied")>>),
     ReadItems(<<ClipboardItem(<<TextPlain>>, "denied"),
                 ClipboardItem(<<TextHtml, ImagePng>>, "imgS"),
                 ClipboardItem(<<ImageJpeg>>, "imgT")>>),
     ReadItems(<<ClipboardItem(<<ImagePng>>, "empty")>>),
     ReadItems(<<ClipboardItem(<<ImagePng>>, "denied")>>)}

\* An explicit clipboard read in flight: where its handler is suspended.
ReadOp(pc, blob) == [pc |-> pc, blob |-> blob]

\* handlePasteFromClipboard up to its first await.
handlePasteFromClipboard ==
    /\ Mounted
    /\ IF ~clipboardApi.read
       THEN /\ setStatusMessage(StatusReadUnsupported)
            /\ Ran("clipboardread", FALSE)
            /\ UNCHANGED reads
       ELSE /\ Len(reads) < MaxReads
            /\ setStatusMessage(StatusReading)
            /\ reads' = Append(reads, ReadOp("read", "none"))
            /\ Ran("clipboardread", TRUE)
    /\ UNCHANGED <<loads, frames, imageRef, react, refs, session, canUseCanvasFilter,
                   clipboardApi, copies, history>>

\* navigator.clipboard.read() of the read op settles: the handler resumes
\* and runs to its next await or to its end.
ClipboardReadSettles(op, result) ==
    /\ op \in DOMAIN reads
    /\ reads[op].pc = "read"
    /\ IF ~result.ok
       THEN /\ setStatusMessage(StatusReadFailed)
            /\ reads' = [reads EXCEPT ![op] = ReadOp("done", "none")]
            /\ Ran("readsettled", FALSE)
       ELSE LET item == Find(result.items,
                             {k \in DOMAIN result.items :
                                \E t \in DOMAIN result.items[k].types :
                                   IsImageType(result.items[k].types[t])})
            IN  IF item = Null
                THEN /\ setStatusMessage(StatusReadNoImage)
                     /\ reads' = [reads EXCEPT ![op] = ReadOp("done", "none")]
                     /\ Ran("readsettled", FALSE)
                ELSE /\ reads' = [reads EXCEPT ![op] = ReadOp("getType", item.blob)]
                     /\ Ran("readsettled", TRUE)
                     /\ UNCHANGED statusMessage
    /\ UNCHANGED <<loads, frames, imageRef, react, refs, session, canUseCanvasFilter,
                   clipboardApi, copies, history>>

\* item.getType(imageType) of the read op settles: the handler runs to its end.
ClipboardGetTypeSettles(op) ==
    /\ op \in DOMAIN reads
    /\ reads[op].pc = "getType"
    /\ reads' = [reads EXCEPT ![op] = ReadOp("done", "none")]
    /\ IF reads[op].blob = "denied"
       THEN /\ setStatusMessage(StatusReadFailed)
            /\ Ran("gettype", FALSE)
            /\ UNCHANGED loads
       ELSE /\ loadImageFromBlob(reads[op].blob, "Clipboard image")
            /\ Ran("gettype", BlobSize(reads[op].blob) # 0)
    /\ UNCHANGED <<frames, imageRef, react, refs, session, canUseCanvasFilter,
                   clipboardApi, copies, history>>

\* A copy in flight: where its handler is suspended, the bitmap toBlob was
\* called on, what toBlob resolved to, whether navigator.clipboard.write was
\* called, and the status the handler ended with ("" until then).
CopyOp(pc, bitmap, encoded, wrote, outcome) ==
    [pc |-> pc, bitmap |-> bitmap, encoded |-> encoded, wrote |-> wrote,
     outcome |-> outcome]

\* handleCopyToClipboard behind a button that is never disabled and without
\* its canvas check (C14's mutant).
handleCopyToClipboardUnguarded ==
    /\ Mounted
    /\ Len(copies) < MaxCopies
    /\ setStatusMessage(StatusPreparing)
    /\ copies' = Append(copies, CopyOp("toBlob", canvas, "pending", FALSE, ""))
    /\ Ran("copy", TRUE)
    /\ UNCHANGED <<loads, frames, imageRef, react, refs, session, canUseCanvasFilter,
                   clipboardApi, reads, history>>

\* A click on "Copy", and handleCopyToClipboard up to its first await. The
\* button is disabled while no image is shown, and so is the handler.
handleCopyToClipboard ==
    /\ Mounted
    /\ IF imageDetails = Null \/ canvas = Null
       THEN /\ Ran("copy", FALSE)
            /\ UNCHANGED <<statusMessage, copies>>
       ELSE /\ Len(copies) < MaxCopies
            /\ setStatusMessage(StatusPreparing)
            /\ copies' = Append(copies, CopyOp("toBlob", canvas, "pending", FALSE, ""))
            /\ Ran("copy", TRUE)
    /\ UNCHANGED <<loads, frames, imageRef, react, refs, session, canUseCanvasFilter,
                   clipboardApi, reads, history>>

\* The copy op ends with the given status.
CopyEnds(op, encoded, wrote, status) ==
    /\ setStatusMessage(status)
    /\ copies' = [copies EXCEPT ![op] = CopyOp("done", @.bitmap, encoded, wrote, status)]

\* The toBlob callback without the look at the clipboard's capabilities
\* (C13's mutant).
ToBlobSettlesNoCapabilityCheck(op, png) ==
    /\ op \in DOMAIN copies
    /\ copies[op].pc = "toBlob"
    /\ IF ~png
       THEN /\ CopyEnds(op, "null", FALSE, StatusExportFailed)
            /\ Ran("toblob", FALSE)
       ELSE /\ copies' = [copies EXCEPT ![op].pc = "write", ![op].encoded = "png",
                                        ![op].wrote = TRUE]
            /\ Ran("toblob", TRUE)
            /\ UNCHANGED statusMessage
    /\ UNCHANGED <<loads, frames, imageRef, react, refs, session, canUseCanvasFilter,
                   clipboardApi, reads, history>>

\* canvas.toBlob calls back, with a PNG blob or with null: the handler
\* resumes and runs to navigator.clipboard.write or to its end.
ToBlobSettles(op, png) ==
    /\ op \in DOMAIN copies
    /\ copies[op].pc = "toBlob"
    /\ IF ~png
       THEN /\ CopyEnds(op, "null", FALSE, StatusExportFailed)
            /\ Ran("toblob", FALSE)
       ELSE IF ~clipboardApi.write
            THEN /\ CopyEnds(op, "png", FALSE, StatusCopyUnsupported)
                 /\ Ran("toblob", FALSE)
            ELSE /\ copies' = [copies EXCEPT ![op].pc = "write", ![op].encoded = "png",
                                             ![op].wrote = TRUE]
                 /\ Ran("toblob", TRUE)
                 /\ UNCHANGED statusMessage
    /\ UNCHANGED <<loads, frames, imageRef, react, refs, session, canUseCanvasFilter,
                   clipboardApi, reads, history>>

\* navigator.clipboard.write of the copy op settles: the handler ends in its
\* try block or in its catch block.
ClipboardWriteSettles(op, resolved) ==
    /\ op \in DOMAIN copies
    /\ copies[op].pc = "write"
    /\ CopyEnds(op, "png", TRUE, IF resolved THEN StatusCopied ELSE StatusCopyFailed)
    /\ Ran("writesettled", resolved)
    /\ UNCHANGED <<loads, frames, imageRef, react, refs, session, canUseCanvasFilter,
                   clipboardApi, reads, history>>

\* ------------------------------------------------------------ input router
\* Where the pointer or the finger can be (clientX, clientY): near the
\* canvas' left edge, and far to its left (a captured drag leaves the canvas).
ClientPoints == {<<13, 26>>, <<-30, 24>>}
\* A point over every image's canvas under every zoom.
ClientInside == <<11, 21>>

\* The point the handlers hand to applyBlurAtPoint for an event at client.
EventPoint(client, zoom) ==
    getCanvasPoint(canvas, BoundingClientRect(canvas, zoom), client[1], client[2])

\* One call of applyBlurAtPoint(point) by a handler.
Brush(point) ==
    /\ strokes < MaxStrokes
    /\ canvas' = applyBlurAtPoint(canvas, BlurSource(Refs), point, brushSize)
    /\ strokes' = strokes + 1
    /\ lastBrush' = [point |-> point, size |-> brushSize]

Ignored(handler) ==
    /\ Ran(handler, FALSE)
    /\ UNCHANGED <<canvas, session, history>>

\* handlePointerDown without the blur-source guard (C7's mutant).
HandlePointerDownNoSourceGuard(client, zoom) ==
    /\ canvasMounted
    /\ IF activeInputRef = "touch"
       THEN Ignored("pointerdown")
       ELSE /\ activeInputRef' = "pointer"
            /\ isDrawingRef' = TRUE
            /\ Brush(EventPoint(client, zoom))
            /\ Ran("pointerdown", TRUE)
    /\ UNCHANGED <<loads, frames, imageRef, statusMessage, react, sourceCanvas,
                   blurredCanvas, blurSourceRef, blurScratch, pixi, canUseCanvasFilter, clipboard>>

HandlePointerDown(client, zoom) ==
    /\ canvasMounted
    /\ IF blurSourceRef = "null" \/ activeInputRef = "touch"
       THEN Ignored("pointerdown")
       ELSE /\ activeInputRef' = "pointer"
            /\ isDrawingRef' = TRUE
            /\ Brush(EventPoint(client, zoom))
            /\ Ran("pointerdown", TRUE)
    /\ UNCHANGED <<loads, frames, imageRef, statusMessage, react, sourceCanvas,
                   blurredCanvas, blurSourceRef, blurScratch, pixi, canUseCanvasFilter, clipboard>>

HandlePointerMove(client, zoom) ==
    /\ canvasMounted
    /\ IF ~isDrawingRef \/ activeInputRef # "pointer"
       THEN Ignored("pointermove")
       ELSE /\ Brush(EventPoint(client, zoom))
            /\ Ran("pointermove", TRUE)
            /\ UNCHANGED session
    /\ UNCHANGED <<loads, frames, imageRef, statusMessage, react, sourceCanvas,
                   blurredCanvas, blurSourceRef, blurScratch, pixi, canUseCanvasFilter, clipboard>>

\* The pointer-end handlers as they were before the input kind was tracked:
\* the drawing flag is dropped, the input kind is not (C8's mutant).
PointerEndKeepsInput(handler) ==
    /\ canvasMounted
    /\ IF activeInputRef # "pointer"
       THEN Ignored(handler)
       ELSE /\ isDrawingRef' = FALSE
            /\ Ran(handler, TRUE)
            /\ UNCHANGED <<activeInputRef, canvas, history>>
    /\ UNCHANGED <<loads, frames, imageRef, statusMessage, react, sourceCanvas,
                   blurredCanvas, blurSourceRef, blurScratch, pixi, canUseCanvasFilter, clipboard>>

\* The body handlePointerUp, handlePointerLeave and handlePointerCancel share.
PointerEnd(handler) ==
    /\ canvasMounted
    /\ IF activeInputRef # "pointer"
       THEN Ignored(handler)
       ELSE /\ isDrawingRef' = FALSE
            /\ activeInputRef' = "none"
            /\ Ran(handler, TRUE)
            /\ UNCHANGED <<canvas, history>>
    /\ UNCHANGED <<loads, frames, imageRef, statusMessage, react, sourceCanvas,
                   blurredCanvas, blurSourceRef, blurScratch, pixi, canUseCanvasFilter, clipboard>>
HandlePointerUp == PointerEnd("pointerup")
HandlePointerLeave == PointerEnd("pointerleave")
HandlePointerCancel == PointerEnd("pointercancel")

HandleTouchStart(client, zoom) ==
    /\ canvasMounted
    /\ IF blurSourceRef = "null" \/ activeInputRef = "pointer"
       THEN Ignored("touchstart")
       ELSE /\ activeInputRef' = "touch"
            /\ isDrawingRef' = TRUE
            /\ Brush(EventPoint(client, zoom))
            /\ Ran("touchstart", TRUE)
    /\ UNCHANGED <<loads, frames, imageRef, statusMessage, react, sourceCanvas,
                   blurredCanvas, blurSourceRef, blurScratch, pixi, canUseCanvasFilter, clipboard>>

\* handleTouchMove checking the drawing flag only (C2's mutant).
HandleTouchMoveAnyInput(client, zoom) ==
    /\ canvasMounted
    /\ IF ~isDrawingRef
       THEN Ignored("touchmove")
       ELSE /\ Brush(EventPoint(client, zoom))
            /\ Ran("touchmove", TRUE)
            /\ UNCHANGED session
    /\ UNCHANGED <<loads, frames, imageRef, statusMessage, react, sourceCanvas,
                   blurredCanvas, blurSourceRef, blurScratch, pixi, canUseCanvasFilter, clipboard>>

HandleTouchMove(client, zoom) ==
    /\ canvasMounted
    /\ IF ~isDrawingRef \/ activeInputRef # "touch"
       THEN Ignored("touchmove")
       ELSE /\ Brush(EventPoint(client, zoom))
            /\ Ran("touchmove", TRUE)
            /\ UNCHANGED session
    /\ UNCHANGED <<loads, frames, imageRef, statusMessage, react, sourceCanvas,
                   blurredCanvas, blurSourceRef, blurScratch, pixi, canUseCanvasFilter, clipboard>>

\* The touch-end handlers clearing the input kind only (C25's mutant).
TouchEndKeepsDrawing(handler) ==
    /\ canvasMounted
    /\ IF activeInputRef # "touch"
       THEN Ignored(handler)
       ELSE /\ activeInputRef' = "none"
            /\ Ran(handler, TRUE)
            /\ UNCHANGED <<isDrawingRef, canvas, history>>
    /\ UNCHANGED <<loads, frames, imageRef, statusMessage, react, sourceCanvas,
                   blurredCanvas, blurSourceRef, blurScratch, pixi, canUseCanvasFilter, clipboard>>

\* The body handleTouchEnd and handleTouchCancel share.
TouchEnd(handler) ==
    /\ canvasMounted
    /\ IF activeInputRef # "touch"
       THEN Ignored(handler)
       ELSE /\ isDrawingRef' = FALSE
            /\ activeInputRef' = "none"
            /\ Ran(handler, TRUE)
            /\ UNCHANGED <<canvas, history>>
    /\ UNCHANGED <<loads, frames, imageRef, statusMessage, react, sourceCanvas,
                   blurredCanvas, blurSourceRef, blurScratch, pixi, canUseCanvasFilter, clipboard>>
HandleTouchEnd == TouchEnd("touchend")
HandleTouchCancel == TouchEnd("touchcancel")

\* ------------------------------------------------------------ specification
\* The pointer and touch handlers, for events at the given places.
RouterNext(points, zooms) ==
    \/ \E client \in points, zoom \in zooms : HandlePointerDown(client, zoom)
    \/ \E client \in points, zoom \in zooms : HandlePointerMove(client, zoom)
    \/ HandlePointerUp
    \/ HandlePointerLeave
    \/ HandlePointerCancel
    \/ \E client \in points, zoom \in zooms : HandleTouchStart(client, zoom)
    \/ \E client \in points, zoom \in zooms : HandleTouchMove(client, zoom)
    \/ HandleTouchEnd
    \/ HandleTouchCancel

\* The image loader with every kind of blob, and the blur-strength control.
NextLoads ==
    \/ \E blob \in Blobs \ {"imgW"} : HandleFileChange(blob)
    \/ \E id \in DOMAIN loads : ImageOnload(id)
    \/ \E id \in DOMAIN loads : ImageOnerror(id)
    \/ ReactCommit
    \/ AnimationFrame
    \/ \E strength \in BlurStrengths : SetBlurStrength(strength)
    \/ HandleReset

\* The whole editor: the user opens imgS and then imgT, moves the blur
\* strength between its minimum and its default, and paints at one place.
Next ==
    \/ loads = <<>> /\ HandleFileChange("imgS")
    \/ Len(loads) = 1 /\ HandleFileChange("imgT")
    \/ \E id \in DOMAIN loads : ImageOnload(id)
    \/ ReactCommit
    \/ AnimationFrame
    \/ \E strength \in {MIN_BLUR_STRENGTH, DEFAULT_BLUR_STRENGTH} : SetBlurStrength(strength)
    \/ HandleReset
    \/ RouterNext({ClientInside}, {1})

\* The brush on the wide image: the user opens imgW, sets the two controls
\* and then paints with the pointer or a finger at every place and zoom.
NextBrush ==
    \/ loads = <<>> /\ HandleFileChange("imgW")
    \/ \E id \in DOMAIN loads : ImageOnload(id)
    \/ ReactCommit
    \/ AnimationFrame
    \/ strokes = 0 /\ \E strength \in {MIN_BLUR_STRENGTH, DEFAULT_BLUR_STRENGTH} :
                         SetBlurStrength(strength)
    \/ strokes = 0 /\ \E size \in BrushSizes : SetBrushSize(size)
    \/ \E client \in ClientPoints, zoom \in Zooms : HandlePointerDown(client, zoom)
    \/ \E client \in ClientPoints, zoom \in Zooms : HandlePointerMove(client, zoom)
    \/ HandlePointerUp
    \/ \E client \in ClientPoints, zoom \in Zooms : HandleTouchStart(client, zoom)
    \/ \E client \in ClientPoints, zoom \in Zooms : HandleTouchMove(client, zoom)
    \/ HandleTouchEnd

\* The controls and reset: the user opens imgT, moves both range inputs,
\* paints with the pointer at one place and resets.
NextEdit ==
    \/ loads = <<>> /\ HandleFileChange("imgT")
    \/ \E id \in DOMAIN loads : ImageOnload(id)
    \/ ReactCommit
    \/ AnimationFrame
    \/ \E strength \in BlurStrengths : SetBlurStrength(strength)
    \/ \E size \in BrushSizes : SetBrushSize(size)
    \/ HandleReset
    \/ HandlePointerDown(ClientInside, 1)
    \/ HandlePointerMove(ClientInside, 1)
    \/ HandlePointerUp

\* Images from the file picker, from paste events and from explicit
\* clipboard reads, on browsers with and without navigator.clipboard.read.
NextPaste ==
    \/ \E blob \in {"empty", "imgS"} : HandleFileChange(blob)
    \/ \E data \in PasteInputs : handlePaste(data)
    \/ handlePasteFromClipboard
    \/ \E op \in DOMAIN reads : \E result \in ReadInputs :
          ClipboardReadSettles(op, result)
    \/ \E op \in DOMAIN reads : ClipboardGetTypeSettles(op)
    \/ \E id \in DOMAIN loads : ImageOnload(id)
    \/ ReactCommit
    \/ AnimationFrame

\* Copies of one image, painted on or not, on browsers with and without
\* the means to write an image to the clipboard.
NextCopy ==
    \/ loads = <<>> /\ HandleFileChange("imgS")
    \/ \E id \in DOMAIN loads : ImageOnload(id)
    \/ ReactCommit
    \/ AnimationFrame
    \/ HandlePointerDown(ClientInside, 1)
    \/ HandlePointerUp
    \/ handleCopyToClipboard
    \/ \E op \in DOMAIN copies : \E png \in BOOLEAN : ToBlobSettles(op, png)
    \/ \E op \in DOMAIN copies : \E resolved \in BOOLEAN :
          ClipboardWriteSettles(op, resolved)

\* The blur-strength range input moved to each of its positions, on a
\* browser that blurs with the pixi pipeline or, failing that, by resampling.
NextFallback ==
    \/ loads = <<>> /\ HandleFileChange("imgS")
    \/ \E id \in DOMAIN loads : ImageOnload(id)
    \/ ReactCommit
    \/ AnimationFrame
    \/ \E strength \in MIN_BLUR_STRENGTH..MAX_BLUR_STRENGTH : SetBlurStrength(strength)

\* The original canvas under everything that could touch it: the user opens
\* an image and, once it is shown, a file that is empty, corrupt, without
\* pixels or another image, pastes without an image, moves both range
\* inputs, paints, resets and copies.
NextOriginal ==
    \/ loads = <<>> /\ HandleFileChange("imgS")
    \/ sourceCanvas # Null /\ \E blob \in Blobs \ {"imgS", "imgW"} :
                                 HandleFileChange(blob)
    \/ \E id \in DOMAIN loads : ImageOnload(id)
    \/ \E id \in DOMAIN loads : ImageOnerror(id)
    \/ ReactCommit
    \/ AnimationFrame
    \/ SetBlurStrength(MIN_BLUR_STRENGTH)
    \/ SetBrushSize(MIN_BRUSH_SIZE)
    \/ HandleReset
    \/ HandlePointerDown(ClientInside, 1)
    \/ HandlePointerUp
    \/ sourceCanvas # Null /\ handlePaste(PasteText)
    \/ strokes > 0 /\ copies = <<>> /\ handleCopyToClipboard
    \/ \E op \in DOMAIN copies : ToBlobSettles(op, TRUE)
    \/ \E op \in DOMAIN copies : ClipboardWriteSettles(op, TRUE)

Spec == Init /\ [][Next]_vars
SpecLoads == Init /\ [][NextLoads]_vars
SpecBrush == Init /\ [][NextBrush]_vars
SpecEdit == Init /\ [][NextEdit]_vars
SpecPaste == InitPaste /\ [][NextPaste]_vars
SpecCopy == InitCopy /\ [][NextCopy]_vars
SpecFallback == InitFallback /\ [][NextFallback]_vars
SpecOriginal == Init /\ [][NextOriginal]_vars

\* ================================================================== claims
\* The states of the Input Router.
Drawing(k) == isDrawingRef /\ activeInputRef = k
Idle == ~isDrawingRef /\ activeInputRef = "none"
SurfacesExist == canvas # Null /\ sourceCanvas # Null /\ blurredCanvas # Null
PointerHandlers == {"pointerdown", "pointermove", "pointerup", "pointerleave",
                    "pointercancel"}
TouchHandlers == {"touchstart", "touchmove", "touchend", "touchcancel"}
HandlersOf(k) == IF k = "pointer" THEN PointerHandlers ELSE TouchHandlers
OtherKind(k) == IF k = "pointer" THEN "touch" ELSE "pointer"

\* ---------------------------------------------------------------------- C1
\* C1: when two loads are requested and both decode to images with pixels,
\* then, once both image.onload have run and no frame callback is pending, the
\* image reference, the image details and the display and original surfaces
\* are those of the load requested last.
C1_LatestRequestWins ==
    ( /\ Len(loads) = 2
      /\ \A id \in DOMAIN loads :
            loads[id].state = "loaded" /\ Image(id).w > 0 /\ Image(id).h > 0
      /\ frames = <<>> )
    => /\ imageRef = 2
       /\ imageDetails = [name |-> loads[2].name, width |-> Image(2).w,
                          height |-> Image(2).h]
       /\ canvas = DrawImage(Image(2), Image(2).w, Image(2).h)
       /\ sourceCanvas = DrawImage(Image(2), Image(2).w, Image(2).h)

\* ---------------------------------------------------------------------- C2
\* C2: while the router is in drawing(k), a step of any handler of the other
\* kind changes neither isDrawingRef, activeInputRef nor the display canvas and
\* applies no brush; a step that applies the brush or changes the session is a
\* step of a handler of kind k.
C2_OtherKindIgnored ==
    [][\A k \in {"pointer", "touch"} :
          Drawing(k) =>
            /\ lastEvent'.handler \in HandlersOf(OtherKind(k))
                 => UNCHANGED <<isDrawingRef, activeInputRef, canvas, strokes>>
            /\ (strokes' # strokes \/ isDrawingRef' # isDrawingRef
                  \/ activeInputRef' # activeInputRef)
                 => lastEvent'.handler \in HandlersOf(k)]_vars
\* A touch session in which the brush was applied and a pointer-down has just
\* been ignored.
C2_Witness ==
    /\ Drawing("touch")
    /\ strokes >= 1
    /\ lastEvent = [handler |-> "pointerdown", accepted |-> FALSE]

\* ---------------------------------------------------------------------- C3
\* C3: a step of handleReset taken when the surfaces exist leaves the display
\* canvas equal, pixel for pixel and in size, to the original (source) canvas,
\* which it does not change; taken right after another such step it leaves
\* the display canvas as it was.
C3_ResetExact ==
    [][(lastEvent'.handler = "reset" /\ lastEvent'.accepted)
         => /\ canvas' = sourceCanvas'
            /\ sourceCanvas' = sourceCanvas
            /\ (lastEvent.handler = "reset" /\ lastEvent.accepted)
                 => canvas' = canvas]_vars
\* Reset has just run after two brush applications made with a brush size and
\* a blur strength other than the defaults.
C3_Witness ==
    /\ lastEvent = [handler |-> "reset", accepted |-> TRUE]
    /\ strokes = 2
    /\ brushSize # DEFAULT_BRUSH_SIZE
    /\ blurStrength # DEFAULT_BLUR_STRENGTH
    /\ canvas = sourceCanvas

\* ---------------------------------------------------------------------- C4
\* Pixel c lies outside the circle of radius size half pixels around point:
\* its nearest point is at least the radius away.
C4_OutsideCircle(point, size, c) ==
    LET nx == Max(2 * c[1], Min(2 * c[1] + 2, point[1]))
        ny == Max(2 * c[2], Min(2 * c[2] + 2, point[2]))
    IN  (point[1] - nx) * (point[1] - nx) + (point[2] - ny) * (point[2] - ny)
          >= size * size
\* Pixel c lies outside the bounding box of that circle clamped to a w x h
\* surface.
C4_OutsideBox(point, size, w, h, c) ==
    \/ 2 * c[1] + 2 <= Max(0, point[1] - size)
    \/ 2 * c[1] >= Min(2 * w, point[1] + size)
    \/ 2 * c[2] + 2 <= Max(0, point[2] - size)
    \/ 2 * c[2] >= Min(2 * h, point[2] + size)
\* C4: one brush application at point P with brush size S keeps the size of the
\* display canvas and leaves unchanged every pixel of it that lies outside the
\* circle of diameter S around P, or outside the circle's bounding box clamped
\* to the surface.
C4_BrushConfined ==
    [][strokes' = strokes + 1
         => /\ canvas'.w = canvas.w
            /\ canvas'.h = canvas.h
            /\ \A c \in Cells(canvas.w, canvas.h) :
                  ( \/ C4_OutsideCircle(lastBrush'.point, lastBrush'.size, c)
                    \/ C4_OutsideBox(lastBrush'.point, lastBrush'.size,
                                     canvas.w, canvas.h, c) )
                  => canvas'.px[c] = canvas.px[c]]_vars
\* One application of the smallest brush at (3, 6) px: pixel (3, 2), inside the
\* circle, has changed and pixel (11, 0), inside the bounding box and outside
\* the circle, has not.
C4_Witness ==
    /\ strokes = 1
    /\ lastBrush = [point |-> <<6, 12>>, size |-> MIN_BRUSH_SIZE]
    /\ ~C4_OutsideBox(lastBrush.point, lastBrush.size, canvas.w, canvas.h, <<11, 0>>)
    /\ C4_OutsideCircle(lastBrush.point, lastBrush.size, <<11, 0>>)
    /\ canvas.px[<<11, 0>>] = sourceCanvas.px[<<11, 0>>]
    /\ canvas.px[<<3, 2>>] # sourceCanvas.px[<<3, 2>>]

\* ---------------------------------------------------------------------- C5
\* C5: whenever the display, original and blurred canvases all exist they have
\* the same width and the same height; and when an image is current and has
\* been committed, i.e. its frame callback has handed it to setupCanvases (and
\* no callback is pending, or that one ran last), the three exist and that
\* size is the image's naturalWidth x naturalHeight.
C5_SurfacesSameSize ==
    /\ SurfacesExist
         => /\ canvas.w = sourceCanvas.w /\ sourceCanvas.w = blurredCanvas.w
            /\ canvas.h = sourceCanvas.h /\ sourceCanvas.h = blurredCanvas.h
    /\ ( /\ imageRef # 0
         /\ loads[imageRef].renders > 0
         /\ frames = <<>> \/ lastEvent = [handler |-> "frame", accepted |-> TRUE] )
         => /\ SurfacesExist
            /\ canvas.w = Image(imageRef).w /\ canvas.h = Image(imageRef).h
            /\ blurredCanvas.w = Image(imageRef).w
            /\ blurredCanvas.h = Image(imageRef).h
\* imgS (3 x 2) was loaded and then imgT (2 x 3), both are committed and the
\* surfaces have imgT's size.
C5_Witness ==
    /\ Len(loads) = 2
    /\ loads[1].blob = "imgS" /\ loads[2].blob = "imgT"
    /\ imageRef = 2
    /\ frames = <<>>
    /\ SurfacesExist
    /\ canvas.w = 2 /\ canvas.h = 3 /\ blurredCanvas.w = 2 /\ blurredCanvas.h = 3

\* ---------------------------------------------------------------------- C6
\* The blur of the current image at the selected strength, as the strategy in
\* use renders it.
C6_BlurOfCurrent ==
    LET img == Image(imageRef)
    IN  IF blurSourceRef = "pixiView" THEN PixiBlur(img, blurStrength)
        ELSE IF canUseCanvasFilter
        THEN FilterBlur(img, blurStrength, img.w, img.h)
        ELSE DownscaleBlur(img, blurStrength, img.w, img.h)
\* C6: when an image is current, the canvas is mounted and no frame callback
\* is pending, the canvas the brush reads from holds the blur of that image
\* at the selected blur strength, and blurStrengthRef holds that strength.
C6_BlurIsCurrent ==
    (imageRef # 0 /\ canvas # Null /\ frames = <<>>)
      => /\ blurStrengthRef = blurStrength
         /\ BlurSource(Refs) # Null
         /\ BlurSource(Refs) = C6_BlurOfCurrent

\* ---------------------------------------------------------------------- C7
\* C7: in every state where the session is active (isDrawingRef set or an
\* input kind recorded) the display, original and blurred canvases exist; and
\* a step of handlePointerDown or handleTouchStart taken while no blur source
\* is set leaves the session idle and the display canvas unchanged and applies
\* no brush.
C7_SessionNeedsSurfaces ==
    [][/\ (isDrawingRef' \/ activeInputRef' # "none")
            => (canvas' # Null /\ sourceCanvas' # Null /\ blurredCanvas' # Null)
       /\ ( /\ blurSourceRef = "null"
            /\ lastEvent'.handler \in {"pointerdown", "touchstart"} )
            => /\ ~isDrawingRef' /\ activeInputRef' = "none"
               /\ ~lastEvent'.accepted
               /\ UNCHANGED <<canvas, strokes, lastBrush>>]_vars
\* The canvas element is mounted, the first image's frame callback has not run
\* yet, and a pointer-down has just been ignored.
C7_Witness ==
    /\ canvas # Null
    /\ sourceCanvas = Null
    /\ blurSourceRef = "null"
    /\ frames # <<>>
    /\ lastEvent = [handler |-> "pointerdown", accepted |-> FALSE]
    /\ Idle
    /\ strokes = 0

\* ---------------------------------------------------------------------- C8
\* C8: from drawing(k) a step of handlePointerUp, handlePointerLeave or
\* handlePointerCancel (k = pointer), or of handleTouchEnd or handleTouchCancel
\* (k = touch), leads to idle; in idle a move step of either kind leaves the
\* display canvas and the session unchanged; and in idle, with a blur source
\* set, a pointer-down or touch-start step starts a session of its kind and
\* applies the brush.
C8_EndReturnsToIdle ==
    [][/\ \A k \in {"pointer", "touch"} :
            ( /\ Drawing(k)
              /\ lastEvent'.handler \in
                   HandlersOf(k) \ {"pointerdown", "pointermove", "touchstart",
                                    "touchmove"} )
            => (~isDrawingRef' /\ activeInputRef' = "none" /\ lastEvent'.accepted)
       /\ (Idle /\ lastEvent'.handler \in {"pointermove", "touchmove"})
            => UNCHANGED <<canvas, strokes, isDrawingRef, activeInputRef>>
       /\ (Idle /\ blurSourceRef # "null" /\ lastEvent'.handler = "pointerdown")
            => (isDrawingRef' /\ activeInputRef' = "pointer"
                  /\ strokes' = strokes + 1)
       /\ (Idle /\ blurSourceRef # "null" /\ lastEvent'.handler = "touchstart")
            => (isDrawingRef' /\ activeInputRef' = "touch"
                  /\ strokes' = strokes + 1)]_vars
\* A session painted and was ended, and a touch-move has since been ignored.
C8_Witness ==
    /\ Idle
    /\ strokes >= 1
    /\ lastEvent = [handler |-> "touchmove", accepted |-> FALSE]

\* ---------------------------------------------------------------------- C9
\* point is the client position mapped by the ratio of the canvas' resolution
\* to its displayed size: point * rect.size = (client - rect.origin) * canvas.size
\* (point in half pixels).
C9_AtEvent(point, client, zoom) ==
    LET rect == BoundingClientRect(canvas, zoom)
    IN  /\ point[1] * rect.width = 2 * (client[1] - rect.left) * canvas.w
        /\ point[2] * rect.height = 2 * (client[2] - rect.top) * canvas.h
\* This step applies the brush exactly once, at the place of the event.
C9_OneBrushAtEvent(client, zoom) ==
    /\ strokes' = strokes + 1
    /\ lastBrush'.size = brushSize
    /\ C9_AtEvent(lastBrush'.point, client, zoom)
    /\ canvas' = applyBlurAtPoint(canvas, BlurSource(Refs), lastBrush'.point,
                                  brushSize)
\* C9: a step of handlePointerDown or handleTouchStart that passes its guards,
\* and a step of handlePointerMove or handleTouchMove taken in a session of
\* its kind, applies the brush exactly once, at the event's client position
\* mapped by canvas size / displayed size; a move step taken while not drawing
\* applies none.
C9_OneBrushPerEvent ==
    [][/\ \A client \in ClientPoints, zoom \in Zooms :
            /\ ( /\ lastEvent'.handler = "pointerdown"
                 /\ blurSourceRef # "null" /\ activeInputRef # "touch"
                 /\ lastBrush'.point = EventPoint(client, zoom)
                 /\ HandlePointerDown(client, zoom) )
                 => C9_OneBrushAtEvent(client, zoom)
            /\ ( /\ lastEvent'.handler = "touchstart"
                 /\ blurSourceRef # "null" /\ activeInputRef # "pointer"
                 /\ lastBrush'.point = EventPoint(client, zoom)
                 /\ HandleTouchStart(client, zoom) )
                 => C9_OneBrushAtEvent(client, zoom)
            /\ ( /\ lastEvent'.handler = "pointermove"
                 /\ Drawing("pointer")
                 /\ lastBrush'.point = EventPoint(client, zoom)
                 /\ HandlePointerMove(client, zoom) )
                 => C9_OneBrushAtEvent(client, zoom)
            /\ ( /\ lastEvent'.handler = "touchmove"
                 /\ Drawing("touch")
                 /\ lastBrush'.point = EventPoint(client, zoom)
                 /\ HandleTouchMove(client, zoom) )
                 => C9_OneBrushAtEvent(client, zoom)
       /\ (lastEvent'.handler \in {"pointermove", "touchmove"} /\ ~isDrawingRef)
            => UNCHANGED <<canvas, strokes, lastBrush>>]_vars
\* A touch-move has just applied the second brush of the run at (1.5, 3) px,
\* the client position (13, 26) on a canvas shown at twice its resolution.
C9_Witness ==
    /\ strokes = 2
    /\ lastEvent = [handler |-> "touchmove", accepted |-> TRUE]
    /\ lastBrush.point = <<3, 6>>
    /\ Drawing("touch")

\* --------------------------------------------------------------------- C10
\* C10: the step in which a decode fails sets the status "Could not load that
\* image.", the step in which a decode yields an image without width or height
\* sets the status "Image decoded with no visible pixels.", two different
\* messages that no other outcome of a load reports; each of these steps, like
\* the step that requested the load, leaves imageRef, imageDetails, every
\* surface and the pending frame callbacks as they were.
C10_FailedLoadTouchesNothing ==
    [][/\ StatusLoadFailed # StatusZeroSize
       /\ {StatusLoadFailed, StatusZeroSize}
            \cap {StatusReady, StatusLoading, StatusEmpty, StatusReset, ""} = {}
       /\ \A id \in DOMAIN loads :
            /\ (loads[id].state = "decoding" /\ loads'[id].state = "failed")
                 => /\ setStatusMessage(StatusLoadFailed)
                    /\ UNCHANGED <<imageRef, imageDetails, refs, frames>>
            /\ ( /\ loads[id].state = "decoding" /\ loads'[id].state = "loaded"
                 /\ (Image(id).w = 0 \/ Image(id).h = 0) )
                 => /\ setStatusMessage(StatusZeroSize)
                    /\ UNCHANGED <<imageRef, imageDetails, refs, frames>>
       /\ Len(loads') > Len(loads)
            => UNCHANGED <<imageRef, imageDetails, refs, frames>>]_vars
\* An image is loaded and shown, and a second load has just decoded to an
\* image without pixels.
C10_Witness ==
    /\ Len(loads) = 2
    /\ loads[1].state = "loaded" /\ loads[2].blob = "zerodim"
    /\ loads[2].state = "loaded"
    /\ statusMessage = StatusZeroSize
    /\ lastEvent = [handler |-> "onload", accepted |-> FALSE]
    /\ imageRef = 1
    /\ imageDetails # Null
    /\ SurfacesExist
    /\ frames = <<>>

\* ---------------------------------------------------------------------- C11
\* The steps that hand a blob of zero bytes to the image loader: a picked
\* file, a pasted file, and the blob of an explicit clipboard read.
C11_EmptyBlobArrives ==
    \/ lastEvent'.handler = "filechange" /\ HandleFileChange("empty")
    \/ lastEvent'.handler = "paste" /\ handlePaste(PasteImage("empty"))
    \/ /\ lastEvent'.handler = "gettype"
       /\ \E op \in DOMAIN reads :
             /\ reads[op].pc = "getType"
             /\ reads[op].blob # "denied"
             /\ BlobSize(reads[op].blob) = 0
             /\ ClipboardGetTypeSettles(op)
\* C11: a blob of zero bytes, whether it comes from the file picker, from a
\* paste event or from an explicit clipboard read, sets the empty-input
\* status, starts no decode (so the surface manager is never called for it:
\* no load and no frame callback is added), and leaves the image reference,
\* the image details and every surface as they were.
C11_EmptyBlobRefused ==
    [][C11_EmptyBlobArrives
         => /\ setStatusMessage(StatusEmpty)
            /\ UNCHANGED <<loads, frames, imageRef, imageDetails, refs>>]_vars
\* An image is shown, and an explicit clipboard read has just delivered a
\* blob of zero bytes.
C11_Witness ==
    /\ lastEvent = [handler |-> "gettype", accepted |-> FALSE]
    /\ statusMessage = StatusEmpty
    /\ imageRef # 0
    /\ imageDetails # Null
    /\ SurfacesExist

\* ---------------------------------------------------------------------- C12
\* Clipboard data without an image: no file and no item of an image type.
C12_PasteHasNoImage(data) ==
    /\ data # Null
    /\ \A k \in DOMAIN data.files : data.files[k].type[1] # "image"
    /\ \A k \in DOMAIN data.items : data.items[k].type[1] # "image"
C12_ReadHasNoImage(result) ==
    /\ result.ok
    /\ \A k \in DOMAIN result.items :
          \A t \in DOMAIN result.items[k].types : result.items[k].types[t][1] # "image"
\* C12: a paste event, or an explicit clipboard read, whose clipboard data
\* holds no image-typed item or file sets the no-image status of its handler,
\* starts no load, and leaves the image reference, the image details and
\* every surface as they were, also when an image is already shown.
C12_NoImageReported ==
    [][/\ lastEvent'.handler = "paste"
            => \A data \in PasteInputs :
                  (C12_PasteHasNoImage(data) /\ handlePaste(data))
                     => /\ setStatusMessage(StatusPasteNoImage)
                        /\ UNCHANGED <<loads, frames, imageRef, imageDetails, refs>>
       /\ lastEvent'.handler = "readsettled"
            => \A op \in DOMAIN reads : \A result \in ReadInputs :
                  (C12_ReadHasNoImage(result) /\ ClipboardReadSettles(op, result))
                     => /\ setStatusMessage(StatusReadNoImage)
                        /\ reads'[op].pc = "done"
                        /\ UNCHANGED <<loads, frames, imageRef, imageDetails, refs>>]_vars
\* An image is shown, and an explicit clipboard read has just found no image
\* on the clipboard.
C12_Witness ==
    /\ lastEvent = [handler |-> "readsettled", accepted |-> FALSE]
    /\ statusMessage = StatusReadNoImage
    /\ reads # <<>>
    /\ imageRef # 0
    /\ imageDetails # Null
    /\ SurfacesExist

\* ---------------------------------------------------------------------- C13
\* The copy op ends in this step.
C13_Ends(op) == copies[op].outcome = "" /\ copies'[op].outcome # ""
\* What the claim and the code agree on, of one copy op in one step: the op
\* encodes the display as it was at the click; it ends once, with a status
\* that is shown and never changes afterwards; the write is attempted only
\* with a PNG in hand and a clipboard that can take it; it ends with the
\* success status exactly when the write resolves and with the failure status
\* exactly when the write is rejected; nothing but the status and the op
\* itself changes.
C13_CopyStep(op) ==
    /\ copies[op].outcome # "" => copies'[op] = copies[op]
    /\ copies'[op].bitmap = copies[op].bitmap
    /\ copies'[op].wrote => (copies'[op].encoded = "png" /\ clipboardApi.write)
    /\ (copies'[op].pc = "done") = (copies'[op].outcome # "")
    /\ C13_Ends(op)
         => /\ statusMessage' = copies'[op].outcome
            /\ copies'[op].outcome \in {StatusExportFailed, StatusCopyUnsupported,
                                        StatusCopied, StatusCopyFailed}
            /\ (copies'[op].outcome = StatusCopied)
                 = (copies[op].pc = "write"
                    /\ lastEvent' = [handler |-> "writesettled", accepted |-> TRUE])
            /\ (copies'[op].outcome = StatusCopyFailed)
                 = (copies[op].pc = "write"
                    /\ lastEvent' = [handler |-> "writesettled", accepted |-> FALSE])
    /\ copies'[op] # copies[op]
         => UNCHANGED <<loads, frames, imageRef, imageDetails, refs>>
\* C13 as stated: copy to clipboard serializes the display to PNG and ends
\* with exactly one outcome, the unsupported status when the clipboard-write
\* capability or PNG encoding is unavailable, the success status when the
\* write resolves, the failure status when the write is rejected; the write
\* is attempted only with the encoding done and the capability present, and
\* no surface is modified.
C13_FailedEncodingIsUnsupported ==
    [][\A op \in DOMAIN copies :
          /\ C13_CopyStep(op)
          /\ C13_Ends(op)
               => ( (copies'[op].encoded = "null" \/ ~clipboardApi.write)
                      => copies'[op].outcome = StatusCopyUnsupported )]_vars
\* C13, amended: as stated, except that a failed PNG encoding ends the copy
\* with the export-failed status; the unsupported status is the outcome
\* exactly when the encoding succeeded and the clipboard cannot take images.
C13_CopyEndsWithOneOutcome ==
    [][\A op \in DOMAIN copies :
          /\ C13_CopyStep(op)
          /\ C13_Ends(op)
               => /\ (copies'[op].outcome = StatusExportFailed)
                       = (copies'[op].encoded = "null")
                  /\ (copies'[op].outcome = StatusCopyUnsupported)
                       = (copies'[op].encoded = "png" /\ ~clipboardApi.write)]_vars
\* Two copies of a painted image have ended, one with a failed encoding and
\* one with the PNG on the clipboard.
C13_Witness ==
    /\ strokes > 0
    /\ \E op \in DOMAIN copies : copies[op].outcome = StatusExportFailed
    /\ \E op \in DOMAIN copies :
          /\ copies[op].outcome = StatusCopied
          /\ copies[op].wrote
          /\ copies[op].bitmap # MountedCanvas

\* ---------------------------------------------------------------------- C14
\* C14: while no image has been loaded, the copy action is disabled or a
\* no-op: a click on it starts no PNG encoding and no clipboard write and
\* leaves the status message as it was, so that no copy is ever in flight
\* in such a state.
C14_NoCopyWithoutImage ==
    [][imageDetails = Null
         => /\ copies = <<>>
            /\ UNCHANGED copies
            /\ statusMessage' # StatusPreparing
            /\ lastEvent'.handler = "copy"
                 => /\ lastEvent'.accepted = FALSE
                    /\ UNCHANGED <<statusMessage, loads, frames, imageRef, refs>>]_vars
\* Copy has just been clicked while the first image is still decoding.
C14_Witness ==
    /\ lastEvent = [handler |-> "copy", accepted |-> FALSE]
    /\ imageDetails = Null
    /\ canvas = Null
    /\ Len(loads) = 1 /\ loads[1].state = "decoding"
    /\ statusMessage = StatusLoading
    /\ copies = <<>>

\* ---------------------------------------------------------------------- C15
\* The handlers that apply the brush when they accept their event.
BrushHandlers == {"pointerdown", "pointermove", "touchstart", "touchmove"}
\* The brush has just been applied at lastBrush.point.
JustBrushed ==
    /\ lastBrush # Null
    /\ lastEvent.accepted
    /\ lastEvent.handler \in BrushHandlers
\* C15: the brush is idempotent per exact point. Right after an application
\* at P, with the blurred surface and the brush size as they were, a second
\* application at P leaves the display as the first one left it.
C15_BrushIdempotent ==
    JustBrushed
      => applyBlurAtPoint(canvas, BlurSource(Refs), lastBrush.point, lastBrush.size)
           = canvas

\* ---------------------------------------------------------------------- C16
\* C16: the parameters of the fallback blur are monotone in the strength. For
\* the integer strengths s1 <= s2 of the range input (the one before and the
\* one after a move of the input, in either order) passes(s1) <= passes(s2)
\* and scale(s1) >= scale(s2); passes is at least 1 and scale at least 0.12,
\* so that the scratch canvas the fallback resamples through has at least one
\* pixel and is no larger than the blurred canvas.
C16_FallbackMonotone ==
    [][lastEvent'.handler = "strength"
         => LET s1 == Min(blurStrengthRef, blurStrengthRef')
                s2 == Max(blurStrengthRef, blurStrengthRef')
            IN  /\ s1 \in MIN_BLUR_STRENGTH..MAX_BLUR_STRENGTH
                /\ s2 \in MIN_BLUR_STRENGTH..MAX_BLUR_STRENGTH
                /\ Passes(s1) <= Passes(s2)
                /\ Scale100(s1) >= Scale100(s2)
                /\ Passes(s1) >= 1
                /\ Scale100(s2) >= 12
                /\ (blurScratch' # Null /\ blurSourceRef' = "blurredCanvas")
                     => /\ blurScratch'.w = ScaledSize(blurredCanvas'.w, blurStrengthRef')
                        /\ blurScratch'.h = ScaledSize(blurredCanvas'.h, blurStrengthRef')
                        /\ blurScratch'.w \in 1..blurredCanvas'.w
                        /\ blurScratch'.h \in 1..blurredCanvas'.h]_vars
\* The strength has just been moved to its maximum and the fallback has run:
\* the 3 x 2 image went through a scratch canvas of 1 x 1.
C16_Witness ==
    /\ lastEvent.handler = "strength"
    /\ blurStrengthRef = MAX_BLUR_STRENGTH
    /\ blurSourceRef = "blurredCanvas"
    /\ blurScratch = [w |-> 1, h |-> 1]
    /\ Passes(blurStrengthRef) = 3
    /\ Scale100(blurStrengthRef) = 12

\* ---------------------------------------------------------------------- C17
\* The brush can be applied: the display canvas is mounted and a pointer-down
\* or touch-start would pass the guard on the blur source.
BrushCanBeApplied ==
    /\ canvasMounted
    /\ blurSourceRef # "null"
    /\ BlurSource(Refs) # Null
\* The blur of the decoded image id at the strength of the last blur pass, as
\* the strategy in use renders it.
C17_BlurOf(id) ==
    LET img == Image(id)
    IN  IF blurSourceRef = "pixiView" THEN PixiBlur(img, blurStrengthRef)
        ELSE IF canUseCanvasFilter
        THEN FilterBlur(img, blurStrengthRef, img.w, img.h)
        ELSE DownscaleBlur(img, blurStrengthRef, img.w, img.h)
\* C17: in every state in which the brush can be applied, the surface it
\* reads from was rendered from the same image as the display and the original
\* canvas and has their width and height, also between the decode of a new
\* image and its frame callback.
C17_BrushReadsSameImage ==
    BrushCanBeApplied
      => /\ sourceCanvas # Null
         /\ \E id \in DOMAIN loads :
               /\ loads[id].state = "loaded"
               /\ sourceCanvas = DrawImage(Image(id), Image(id).w, Image(id).h)
               /\ BlurSource(Refs) = C17_BlurOf(id)
         /\ BlurSource(Refs).w = canvas.w /\ BlurSource(Refs).h = canvas.h
         /\ sourceCanvas.w = canvas.w /\ sourceCanvas.h = canvas.h

\* ---------------------------------------------------------------------- C18
\* The point lies on the canvas (in half pixels).
OnCanvas(point) ==
    /\ 0 <= point[1] /\ point[1] <= 2 * canvas.w
    /\ 0 <= point[2] /\ point[2] <= 2 * canvas.h
\* C18: for every point the input router delivers, on the canvas at the start
\* of a drag or anywhere while the drag continues, and every brush size, the
\* window the brush computes stays within the surface:
\* 0 <= startX <= endX <= W and 0 <= startY <= endY <= H, so that the copied
\* rectangle has no negative width or height.
C18_WindowWithinSurface ==
    ( /\ JustBrushed
      /\ lastEvent.handler \in {"pointermove", "touchmove"} \/ OnCanvas(lastBrush.point) )
      => LET win == BrushWindow(canvas, lastBrush.point, lastBrush.size)
         IN  /\ 0 <= win.startX /\ win.startX <= win.endX /\ win.endX <= 2 * canvas.w
             /\ 0 <= win.startY /\ win.startY <= win.endY /\ win.endY <= 2 * canvas.h
             /\ win.width >= 0 /\ win.height >= 0

\* ---------------------------------------------------------------------- C19
\* Pixel c lies inside the circle of diameter size around point, all of it.
C19_InsideCircle(point, size, c) ==
    \A corner \in {<<2 * c[1], 2 * c[2]>>, <<2 * c[1] + 2, 2 * c[2]>>,
                   <<2 * c[1], 2 * c[2] + 2>>, <<2 * c[1] + 2, 2 * c[2] + 2>>} :
       (corner[1] - point[1]) * (corner[1] - point[1])
         + (corner[2] - point[2]) * (corner[2] - point[2]) <= size * size
\* C19: right after a brush application at P with size S, every pixel of the
\* display inside the circle of diameter S around P equals the pixel of the
\* blurred surface at the same coordinates.
C19_DiskEqualsBlurred ==
    JustBrushed
      => \A c \in Cells(canvas.w, canvas.h) :
            C19_InsideCircle(lastBrush.point, lastBrush.size, c)
              => canvas.px[c] = PixelAt(BlurSource(Refs), c[1], c[2])

\* ---------------------------------------------------------------------- C20
\* The surface holds what a blur pass writes: the blur of a decoded image at
\* the strength of the last pass, by one of the three strategies.
C20_Written(surface) ==
    \E id \in DOMAIN loads :
       /\ loads[id].state = "loaded"
       /\ \/ surface = FilterBlur(Image(id), blurStrengthRef, surface.w, surface.h)
          \/ surface = PixiBlur(Image(id), blurStrengthRef)
          \/ surface = DownscaleBlur(Image(id), blurStrengthRef, surface.w, surface.h)
\* C20: the brush never reads the blurred surface before a blur pass has
\* written it. In every state in which an input event can apply the brush,
\* the surface it would read has been written by a blur pass since it was
\* allocated: no state lies between the allocation and the first pass.
C20_BlurWrittenBeforeRead ==
    BrushCanBeApplied
      => /\ BlurSource(Refs) # NewCanvas(BlurSource(Refs).w, BlurSource(Refs).h)
         /\ C20_Written(BlurSource(Refs))

\* ---------------------------------------------------------------------- C21
\* C21: the original canvas is immutable after load. It always holds the
\* raster of a decoded image, pixel for pixel, and no step changes it but the
\* frame callback that commits a successful load, which replaces it by the
\* raster of the image it commits: no brush stroke, reset, brush-size or
\* blur-strength change, copy, paste without image or failed load does.
C21_OriginalImmutable ==
    [][/\ sourceCanvas # Null
            => \E id \in DOMAIN loads :
                  /\ loads[id].state = "loaded"
                  /\ sourceCanvas = DrawImage(Image(id), Image(id).w, Image(id).h)
       /\ sourceCanvas' # sourceCanvas
            => /\ lastEvent' = [handler |-> "frame", accepted |-> TRUE]
               /\ frames # <<>>
               /\ imageRef = Head(frames)
               /\ sourceCanvas' = DrawImage(Image(Head(frames)), Image(Head(frames)).w,
                                            Image(Head(frames)).h)]_vars
\* The first image was painted on at another strength and brush size than
\* it was loaded with, copied and reset, a second file failed to decode and a
\* paste without an image has just been refused: the original is still the
\* first image's raster.
C21_Witness ==
    /\ lastEvent = [handler |-> "paste", accepted |-> FALSE]
    /\ statusMessage = StatusPasteNoImage
    /\ Len(loads) = 2 /\ loads[2].state = "failed"
    /\ strokes > 0
    /\ copies # <<>> /\ copies[1].pc = "done"
    /\ blurStrength # DEFAULT_BLUR_STRENGTH
    /\ brushSize # DEFAULT_BRUSH_SIZE
    /\ sourceCanvas = DrawImage(Image(1), Image(1).w, Image(1).h)
    /\ canvas = sourceCanvas

\* ---------------------------------------------------------------------- C22
\* C22: a successful load replaces the surfaces wholesale. Right after the
\* frame callback that commits an image, the display and the original canvas
\* are pixel-identical to that image's raster and the surface the brush reads
\* is the blur of that image, whatever brush edits, strength changes or draw
\* session came before: no brush edit on the previous image survives.
C22_CommitReplacesSurfaces ==
    lastEvent = [handler |-> "frame", accepted |-> TRUE]
      => LET img == Image(imageRef)
             raster == DrawImage(img, img.w, img.h)
         IN  /\ loads[imageRef].state = "loaded"
             /\ canvas = raster
             /\ sourceCanvas = raster
             /\ BlurSource(Refs) =
                  IF blurSourceRef = "pixiView" THEN PixiBlur(img, blurStrengthRef)
                  ELSE IF canUseCanvasFilter
                  THEN FilterBlur(img, blurStrengthRef, img.w, img.h)
                  ELSE DownscaleBlur(img, blurStrengthRef, img.w, img.h)

\* ---------------------------------------------------------------------- C23
\* This step ran updateBlurredCanvas past its first check: the blur-strength
\* effect, or the frame callback that commits an image.
C23_BlurPassRan ==
    /\ \/ lastEvent'.handler = "strength"
       \/ lastEvent' = [handler |-> "frame", accepted |-> TRUE]
    /\ imageRef' # 0
    /\ blurredCanvas' # Null
\* C23: without native blur filtering, a blur pass tears the pixi pipeline
\* down and rebuilds it whenever no renderer exists or the pipeline was built
\* for another image, and keeps it otherwise.  If the setup throws, every
\* pipeline ref (renderer, stage, sprite, filter, texture, image) is cleared
\* and the same pass falls back to the downscale approximation: afterwards the
\* brush reads the blurred canvas, written by that pass.
C23_PipelineRebuiltOrFallback ==
    [][(C23_BlurPassRan /\ ~canUseCanvasFilter)
         => LET img == Image(imageRef')
            IN  IF ~pixi.renderer \/ pixi.image # imageRef'
                THEN \/ /\ pixi'.renderer /\ pixi'.stage /\ pixi'.sprite
                        /\ pixi'.blurFilter /\ pixi'.texture
                        /\ pixi'.image = imageRef'
                        /\ pixi.renderer => pixi'.rendererDestroys >= 1
                        /\ pixi.texture => pixi'.textureDestroys >= 1
                        /\ blurSourceRef' = "pixiView"
                        /\ pixi'.view = PixiBlur(img, blurStrengthRef')
                     \/ /\ ~pixi'.renderer /\ ~pixi'.stage /\ ~pixi'.sprite
                        /\ ~pixi'.blurFilter /\ ~pixi'.texture
                        /\ pixi'.image = 0
                        /\ blurSourceRef' = "blurredCanvas"
                        /\ blurredCanvas' = DownscaleBlur(img, blurStrengthRef',
                                                          blurredCanvas'.w, blurredCanvas'.h)
                ELSE /\ pixi'.renderer /\ pixi'.image = pixi.image
                     /\ pixi'.rendererDestroys = pixi.rendererDestroys
                     /\ pixi'.textureDestroys = pixi.textureDestroys
                     /\ blurSourceRef' = "pixiView"
                     /\ pixi'.view = PixiBlur(img, blurStrengthRef')]_vars

\* ---------------------------------------------------------------------- C24
\* k is the first index of types (a sequence of MIME types) with an image type.
C24_FirstImageAt(types, k) ==
    /\ k \in DOMAIN types
    /\ types[k][1] = "image"
    /\ \A j \in 1..(k - 1) : types[j][1] # "image"
\* The types of the entries of a sequence of files or DataTransferItems.
C24_Types(entries) == [k \in DOMAIN entries |-> entries[k].type]
\* C24: whenever a paste event hands a blob to the image loader it is the
\* first file whose type begins with "image/" or, when no file has such a
\* type, the file of the first item whose type does; whenever an explicit
\* clipboard read does, it is the blob of the first clipboard item that lists
\* such a type.  An entry of another type is never loaded.
C24_FirstImageIsLoaded ==
    [][/\ lastEvent'.handler = "paste"
            => \A data \in PasteInputs :
                  (handlePaste(data) /\ loads' # loads)
                     => \/ \E k \in DOMAIN data.files :
                              /\ C24_FirstImageAt(C24_Types(data.files), k)
                              /\ loads'[Len(loads')].blob = data.files[k].blob
                        \/ /\ \A k \in DOMAIN data.files : data.files[k].type[1] # "image"
                           /\ \E k \in DOMAIN data.items :
                                 /\ C24_FirstImageAt(C24_Types(data.items), k)
                                 /\ loads'[Len(loads')].blob = data.items[k].file.blob
       /\ lastEvent'.handler = "readsettled"
            => \A op \in DOMAIN reads : \A result \in ReadInputs :
                  (ClipboardReadSettles(op, result) /\ reads'[op].pc = "getType")
                     => \E k \in DOMAIN result.items :
                           /\ \E t \in DOMAIN result.items[k].types :
                                 C24_FirstImageAt(result.items[k].types, t)
                           /\ \A j \in 1..(k - 1) :
                                 \A t \in DOMAIN result.items[j].types :
                                    result.items[j].types[t][1] # "image"
                           /\ reads'[op].blob = result.items[k].blob
       /\ lastEvent'.handler = "gettype"
            => \A op \in DOMAIN reads :
                  (reads[op].pc = "getType" /\ reads'[op].pc = "done"
                     /\ loads' # loads)
                     => loads'[Len(loads')].blob = reads[op].blob]_vars
\* Of the two pictures among the pasted items, and of the two among the items
\* of a clipboard read, the first has been handed to the loader.
C24_Witness ==
    /\ Len(loads) = 2
    /\ loads[1] = [blob |-> "imgT", name |-> "Clipboard image", state |-> "decoding",
                                 renders |-> 0, revoked |-> 0]
    /\ loads[2] = [blob |-> "imgS", name |-> "Clipboard image", state |-> "decoding",
                                 renders |-> 0, revoked |-> 0]
    /\ lastEvent = [handler |-> "gettype", accepted |-> TRUE]

\* ---------------------------------------------------------------------- C25
\* C25: the draw session is consistent in every reachable state: the drawing
\* flag is set exactly when an input kind, pointer or touch, is recorded,
\* after any sequence of pointer and touch events, loads and resets.
C25_SessionConsistent ==
    /\ activeInputRef \in {"none", "pointer", "touch"}
    /\ isDrawingRef = (activeInputRef # "none")
\* A finger is down and painting while the second image has just been
\* committed.
C25_Witness ==
    /\ isDrawingRef /\ activeInputRef = "touch"
    /\ strokes > 0
    /\ lastEvent = [handler |-> "frame", accepted |-> TRUE]
    /\ imageRef = 2

\* ---------------------------------------------------------------------- C26
\* No decode is under way and no frame callback is pending.
C26_AllCallbacksRan ==
    /\ frames = <<>>
    /\ \A id \in DOMAIN loads : loads[id].state # "decoding"
\* The image reference, the image details and the three surfaces belong to
\* the one image in imageRef, which was handed to setupCanvases once.
C26_OneImage ==
    LET img == Image(imageRef)
        raster == DrawImage(img, img.w, img.h)
    IN  /\ loads[imageRef].state = "loaded"
        /\ loads[imageRef].renders = 1
        /\ imageDetails = [name |-> loads[imageRef].name, width |-> img.w,
                           height |-> img.h]
        /\ canvas = raster
        /\ sourceCanvas = raster
        /\ blurredCanvas # Null
        /\ blurredCanvas.w = img.w /\ blurredCanvas.h = img.h
        /\ BlurSource(Refs) =
             IF blurSourceRef = "pixiView" THEN PixiBlur(img, blurStrengthRef)
             ELSE IF canUseCanvasFilter
             THEN FilterBlur(img, blurStrengthRef, img.w, img.h)
             ELSE DownscaleBlur(img, blurStrengthRef, img.w, img.h)
\* C26: image.onload is the only writer of imageRef, so imageRef names the
\* image whose successful decode completed last.  Once all pending decode and
\* frame callbacks have run (and React has committed its render), the image
\* details and the three surfaces belong to that same image, and no decoded
\* image is ever handed to the Surface Manager more than once.
C26_SettlesOnLastDecoded ==
    /\ \A id \in DOMAIN loads : loads[id].renders <= 1
    /\ (C26_AllCallbacksRan /\ canvas # Null /\ imageRef # 0) => C26_OneImage

\* ---------------------------------------------------------------------- C27
\* The points the input router can hand to the brush in this state.
C27_Points ==
    {EventPoint(client, zoom) : client \in ClientPoints, zoom \in Zooms}
\* One brush application on cv with the blurred surface and the brush size
\* of this state.
C27_Apply(cv, point) == applyBlurAtPoint(cv, BlurSource(Refs), point, brushSize)
\* Brush applications at P and Q give the same display in either order.
C27_Commute(P, Q) ==
    C27_Apply(C27_Apply(canvas, P), Q) = C27_Apply(C27_Apply(canvas, Q), P)
\* After applications at P and Q the pixels inside either circle are those
\* of the blurred surface and the pixels outside both windows are untouched.
C27_UnionShowsBlurred(P, Q) ==
    LET after == C27_Apply(C27_Apply(canvas, P), Q)
        winP == BrushWindow(canvas, P, brushSize)
        winQ == BrushWindow(canvas, Q, brushSize)
    IN  \A c \in Cells(canvas.w, canvas.h) :
           /\ (C19_InsideCircle(P, brushSize, c) \/ C19_InsideCircle(Q, brushSize, c))
                => after.px[c] = PixelAt(BlurSource(Refs), c[1], c[2])
           /\ (BrushCover(winP, P, brushSize, c[1], c[2]) = 0
                 /\ BrushCover(winQ, Q, brushSize, c[1], c[2]) = 0)
                => after.px[c] = canvas.px[c]
\* C27: with the blurred surface and the brush size unchanged, brush
\* applications commute, and after applications at P and Q exactly the pixels
\* in the union of the two clamped disks show blurred pixels while all others
\* keep their previous values.
C27_BrushesCommute ==
    BrushCanBeApplied
      => \A P \in C27_Points, Q \in C27_Points :
            C27_Commute(P, Q) /\ C27_UnionShowsBlurred(P, Q)

\* ---------------------------------------------------------------------- C28
\* C28: changing the blur strength or the brush size never modifies the
\* display, so that regions painted earlier keep the pixels they were given;
\* a later brush application uses the size and the strength set last: it
\* draws with the current brush size from the blur of the image at the
\* current strength.
C28_ControlsLeaveDisplay ==
    [][ /\ lastEvent'.handler \in {"strength", "brush"}
             => canvas' = canvas /\ strokes' = strokes
        /\ (lastEvent'.handler \in BrushHandlers /\ strokes' # strokes)
             => /\ lastBrush'.size = brushSize
                /\ blurStrengthRef = blurStrength
                /\ canvas' = applyBlurAtPoint(canvas, C17_BlurOf(imageRef),
                                              lastBrush'.point, brushSize)
      ]_vars
\* The brush size has just been changed after a stroke made with another
\* size and at another strength than the default; the stroke is still there.
C28_Witness ==
    /\ lastEvent = [handler |-> "brush", accepted |-> TRUE]
    /\ strokes > 0
    /\ lastBrush.size # brushSize
    /\ blurStrengthRef # DEFAULT_BLUR_STRENGTH
    /\ canvas # sourceCanvas

\* ---------------------------------------------------------------------- C29
\* C29: across image loads, blur-strength changes and pipeline setup
\* failures, no call of setupPixiPipeline calls destroy more than once on the
\* renderer, or on the texture, it found in the refs: each GPU renderer and
\* each texture is destroyed at most once.
C29_DestroyedAtMostOnce ==
    /\ pixi.rendererDestroys <= 1
    /\ pixi.textureDestroys <= 1

\* ---------------------------------------------------------------------- C30
\* C30: the object URL of every load request is revoked exactly once, by
\* that request's onload or onerror callback: it is unrevoked while the
\* decode is under way, revoked once as soon as the decode has completed or
\* failed, and never revoked again, whatever other loads are in flight.
C30_UrlRevokedOnce ==
    /\ [](\A id \in DOMAIN loads :
             loads[id].revoked = IF loads[id].state = "decoding" THEN 0 ELSE 1)
    /\ [][\A id \in DOMAIN loads :
             loads'[id].revoked # loads[id].revoked
               => /\ lastEvent'.handler \in {"onload", "onerror"}
                  /\ loads[id].state = "decoding"
                  /\ loads'[id].state # "decoding"
                  /\ \A other \in DOMAIN loads \ {id} : loads'[other] = loads[other]
          ]_vars
\* One decode failed and one succeeded while both were in flight together;
\* each URL has been revoked.
C30_Witness ==
    /\ Len(loads) = 2
    /\ loads[1].state = "failed" /\ loads[1].revoked = 1
    /\ loads[2].state = "loaded" /\ loads[2].revoked = 1
    /\ lastEvent.handler = "onerror"

====
